---- MODULE Spec2Model ----
(***************************************************************************)
(* Model of the rendering core of dosgato-templating (src/src/component.ts,*)
(* the snapshot that holds hydratePage / renderPage / migratePage):        *)
(* hydration of a serialized component tree, the fetch / context / render  *)
(* phases of renderPage, the variation path and the error containment      *)
(* (logError / passError).                                                 *)
(***************************************************************************)
EXTENDS Integers, Sequences, FiniteSets, Bags, TLC

\* ------------------------------------------------------------------------
\* Bounds and the serialized input tree
\* ------------------------------------------------------------------------

\* number of nodes of the serialized tree (node 1 is the page record's data)
NumNodes == 6

\* schema versions run from 0 to MaxVersion
MaxVersion == 4

\* at most MaxCalls calls of addTemplate / addProvider are followed
MaxCalls == 3

\* the registered versions have the major numbers 1 .. MaxMajor
MaxMajor == 2

\* the header levels tried run from -MaxHeaderLevel to MaxHeaderLevel
MaxHeaderLevel == 8

Nodes == 1..NumNodes

Root == 1

\* "no node" (an undefined parent / page reference)
NoNode == 0

\* serialized tree: node k holds the children 4k-2, 4k-1, 4k in its area
\* "main" and the child 4k+1 in its area "side"
SerParent(n) == IF n = Root THEN NoNode ELSE (n + 2) \div 4

SerAreaOf(n) == IF n % 4 = 1 THEN "side" ELSE "main"

\* index of the node in the serialized list of its area, as printed in a path
SerIndexOf(n) == IF n % 4 = 3 THEN "1" ELSE IF n % 4 = 0 THEN "2" ELSE "0"

SerList(k, area) ==
  LET cand == IF area = "main" THEN <<4 * k - 2, 4 * k - 1, 4 * k>> ELSE <<4 * k + 1>>
  IN SelectSeq(cand, LAMBDA c : c \in Nodes)

\* the areas object of the serialized node, in key order (Object.keys)
SerAreas(k) ==
  SelectSeq(<<[name |-> "main", list |-> SerList(k, "main")],
              [name |-> "side", list |-> SerList(k, "side")]>>,
            LAMBDA a : Len(a.list) > 0)

\* templateKey of each serialized node
TemplateKeyOf(n) ==
  IF n = Root THEN "home"
  ELSE IF n % 4 = 2 THEN "panel"
  ELSE IF n % 4 = 3 THEN "widget-v9"
  ELSE "text"

ComponentKeys == {"panel", "widget-v9", "text"}

PageKeys == {"home"}

Extensions == {"html", "rss", ""}

\* ------------------------------------------------------------------------
\* Values
\* ------------------------------------------------------------------------

\* the value of a field that was never assigned
Undefined == 0

UndefinedPath == <<"undefined">>

UndefinedCtx == [def |-> FALSE, by |-> NoNode, headerLevel |-> 0]

\* the context renderPage hands to the page's setContext
InitialCtx == [def |-> TRUE, by |-> NoNode, headerLevel |-> 1]

\* page.path of the page record
PagePathOfRecord == "/site/page"

VARIABLES
  pageRegistry,      \* keys in templateRegistry.pages
  componentRegistry, \* keys in templateRegistry.components
  extension,         \* the extension renderPage was called with
  rootIsPage,        \* does the class registered for the page's key extend Page
  bare,              \* the serialized nodes that have no areas property
  pc,                \* position of renderPage
  result,            \* settlement of the promise renderPage returned
  hydIdx,            \* number of hydration steps taken
  constructed,       \* nodes whose constructor has been entered
  parent,            \* Component.parent
  page,              \* Component.page
  areas,             \* Component.areas (Map, in insertion order)
  path,              \* Component.path
  pagePath,          \* Page.pagePath
  hadError,          \* Component.hadError
  sink,              \* what Page.passError has written (a bag of log lines)
  captured,          \* every error handed to logError (a bag)
  fetchState,        \* per node: idle / pending / ok / failed
  fetched,           \* Component.fetched
  ctxState,          \* per node: idle / pending / done / failed
  ctxArg,            \* the argument each setContext call received
  renderCtx,         \* Component.renderCtx
  headContent,       \* Page.headContent
  rState,            \* per node: idle / blanked / returned / threw
  rArg,              \* the renderedAreas map each render call received
  out,               \* the string each renderFn call returned
  mpc,               \* position of migratePage
  mInput,            \* the page migratePage was called with
  mFrom,             \* page.savedAtVersion at the call
  mTo,               \* toSchemaVersion
  mNoDown,           \* ids of the registered migrations without a down
  mConverter,        \* id of the migration that changes the templateKey (0: none)
  mPage,             \* the local variable page of migratePage
  sortedMigrations,  \* sortedMigrations of migratePage
  mIdx,              \* position of the loop over sortedMigrations
  mCalls,            \* the calls of up / down made so far, in order
  mResult,           \* settlement of the promise migratePage returned
  mRound,            \* 1: the first call; 2: the call that takes its result back
  mOrigin,           \* the page the first call was made with
  mObject,           \* the object that was passed in, as it is now
  regPages,          \* keys of templateRegistry.pages, as addTemplate fills it
  regComponents,     \* keys of templateRegistry.components, as addTemplate fills it
  regAll,            \* templateRegistry.all (the keys, in order)
  cssblocks,         \* templateRegistry.cssblocks
  jsblocks,          \* templateRegistry.jsblocks
  regSeen,           \* every block that was handed to the registry
  regCalls,          \* number of addTemplate / addProvider calls made
  hdrPc,             \* position of the call of a header helper
  hdrLevel,          \* ctx.headerLevel of the call
  hdrContent,        \* content of the call
  hdrAttrs,          \* attributes of the call
  hdrOut,            \* what printHeader returned
  hdrCtx,            \* headerLevel held by the ctx object that was passed in
  hdrRet             \* what advanceHeader returned

hydVars == <<hydIdx, constructed, parent, page, areas, path, pagePath>>
errVars == <<hadError, sink, captured>>
fetchVars == <<fetchState, fetched>>
ctxVars == <<ctxState, ctxArg, renderCtx>>
renderVars == <<rState, rArg, out>>
migVars == <<mpc, mInput, mFrom, mTo, mNoDown, mConverter, mPage, sortedMigrations,
             mIdx, mCalls, mResult, mRound, mOrigin, mObject>>
regVars == <<regPages, regComponents, regAll, cssblocks, jsblocks, regSeen, regCalls>>
hdrVars == <<hdrPc, hdrLevel, hdrContent, hdrAttrs, hdrOut, hdrCtx, hdrRet>>
inputVars == <<pageRegistry, componentRegistry, extension, rootIsPage, bare, migVars, regVars, hdrVars>>

vars == <<inputVars, pc, result, hydVars, errVars, fetchVars, ctxVars,
          headContent, renderVars>>

\* ------------------------------------------------------------------------
\* Small helpers over the hydrated tree
\* ------------------------------------------------------------------------

RECURSIVE Concat(_)
\* Array.prototype.flat / join('') of a list of lists
Concat(ss) == IF ss = << >> THEN << >> ELSE Head(ss) \o Concat(Tail(ss))

\* Array.from(component.areas.values()).flat()
Children(n) == Concat([i \in 1..Len(areas[n]) |-> areas[n][i].list])

ChildSet(n) == {Children(n)[i] : i \in 1..Len(Children(n))}

RECURSIVE Ancestors(_)
\* the nodes met by following parent links from n (n excluded)
Ancestors(n) ==
  IF parent[n] = NoNode THEN {} ELSE {parent[n]} \cup Ancestors(parent[n])

RECURSIVE collectComponents(_)
\* flat pre-order list of the hydrated tree below (and including) n
collectComponents(n) ==
  LET list == Children(n)
  IN <<n>> \o Concat([i \in 1..Len(list) |-> collectComponents(list[i])])

Live == {collectComponents(Root)[i] : i \in 1..Len(collectComponents(Root))}

\* ------------------------------------------------------------------------
\* Error containment: logError / passError
\* ------------------------------------------------------------------------

\* Page.passError: the terminal sink, console.warn with pagePath, path and e
PagePassError(snk, e, p) ==
  snk (+) SetToBag({[pagePath |-> pagePath, path |-> p, err |-> e]})

RECURSIVE passError(_, _, _, _)
\* Component.passError re-delegates to the parent; the Page's override logs
passError(n, snk, e, p) ==
  IF n = Root THEN PagePassError(snk, e, p)
  ELSE IF parent[n] = NoNode THEN snk
  ELSE passError(parent[n], snk, e, p)

\* Component.logError, the sink part: this.parent?.passError(e, this.path)
LogErrorSink(n, snk, e) ==
  IF parent[n] = NoNode THEN snk ELSE passError(parent[n], snk, e, path[n])

\* mutant: passing the error up flags every node it passes through
LogErrorFlagWithAncestors(n, had) ==
  [m \in Nodes |-> had[m] \/ m = n \/ m \in Ancestors(n)]

\* mutant: the error also flags the parent of the node
LogErrorFlagWithParent(n, had) ==
  [m \in Nodes |-> had[m] \/ m = n \/ m = parent[n]]

\* Component.logError, the flag part: this.hadError = true
LogErrorFlag(n, had) == [had EXCEPT ![n] = TRUE]

\* an error value: what threw it and in which operation
Err(kind, n) == [kind |-> kind, node |-> n]

\* logError as a step of the state machine
logError(n, e) ==
  /\ hadError' = LogErrorFlag(n, hadError)
  /\ sink' = LogErrorSink(n, sink, e)
  /\ captured' = captured (+) SetToBag({[at |-> n, err |-> e]})

\* ------------------------------------------------------------------------
\* Hydration: hydratePage and the recursive Component constructor
\* ------------------------------------------------------------------------

Registered(c) == TemplateKeyOf(c) \in componentRegistry

Ev(kind, n, area, c) == [ev |-> kind, node |-> n, area |-> area, child |-> c]

RECURSIVE ConstructEvents(_)
\* the steps one constructor call takes, nested constructor calls included:
\* begin (this.parent = parent), for every area the children in order (a nested
\* constructor, or logError for a child without template code) and then
\* this.areas.set, finally the tail of the constructor
ConstructEvents(n) ==
  LET ChildEvents(a, c) ==
        IF Registered(c) THEN ConstructEvents(c)
        ELSE <<Ev("missing", n, a.name, c)>>
      AreaEvents(a) ==
        Concat([i \in 1..Len(a.list) |-> ChildEvents(a, a.list[i])])
          \o <<Ev("areaSet", n, a.name, NoNode)>>
  IN <<Ev("begin", n, "", NoNode)>>
       \o Concat([k \in 1..Len(SerAreas(n)) |-> AreaEvents(SerAreas(n)[k])])
       \o <<Ev("finish", n, "", NoNode)>>

\* mutant: the loop over an area stops at the first child without template
HydratedListUntilMissing(n, a) ==
  LET ser == CHOOSE x \in {SerAreas(n)[k] : k \in 1..Len(SerAreas(n))} : x.name = a
      ok(i) == \A j \in 1..i : Registered(ser.list[j])
  IN [i \in 1..Cardinality({i \in 1..Len(ser.list) : ok(i)}) |-> ser.list[i]]

\* the children of area a of the serialized node n that get pushed
HydratedList(n, a) ==
  LET ser == CHOOSE x \in {SerAreas(n)[k] : k \in 1..Len(SerAreas(n))} : x.name = a
  IN SelectSeq(ser.list, Registered)

\* `${path}/${key}/${i}`
ChildPath(p, key, i) == p \o <<"/", key, "/", i>>

RootPath == <<"/">>

RECURSIVE PathOfRenumbered(_)
\* mutant: the index in the path counts the hydrated children only
PathOfRenumbered(n) ==
  IF n = Root THEN RootPath
  ELSE LET ser == SerList(SerParent(n), SerAreaOf(n))
           pos == CHOOSE i \in 1..Len(ser) : ser[i] = n
           before == Cardinality({j \in 1..(pos - 1) : Registered(ser[j])})
       IN ChildPath(PathOfRenumbered(SerParent(n)), SerAreaOf(n), <<"0", "1", "2">>[before + 1])

RECURSIVE PathOf(_)
\* the path argument a node's constructor is called with
PathOf(n) ==
  IF n = Root THEN RootPath
  ELSE ChildPath(PathOf(SerParent(n)), SerAreaOf(n), SerIndexOf(n))

\* mutant: the walk stops at the first parent
FindPageNearest(n) ==
  IF n = Root THEN (IF rootIsPage THEN Root ELSE NoNode)
  ELSE parent[n]

RECURSIVE FindPage(_)
\* the tmpParent walk at the end of the constructor: up the parent links to
\* the top, which has to be a Page
FindPage(n) ==
  IF n = Root THEN (IF rootIsPage THEN Root ELSE NoNode)
  ELSE IF parent[n] = NoNode THEN NoNode
  ELSE FindPage(parent[n])

\* the two errors that leave renderPage from hydration
MissingTemplate == "Unable to render page. Missing template implementation."

HydrationFailed == "Hydration failed, could not map component back to its page."

\* what Object.keys / Object.values / Object.entries throw for undefined
NoObject == "TypeError: Cannot convert undefined or null to object"

\* no renderPage call has started
RenderIdle ==
  /\ pc = "start"
  /\ result = [status |-> "pending", value |-> << >>, error |-> ""]
  /\ hydIdx = 0
  /\ constructed = {}
  /\ parent = [n \in Nodes |-> NoNode]
  /\ page = [n \in Nodes |-> NoNode]
  /\ areas = [n \in Nodes |-> << >>]
  /\ path = [n \in Nodes |-> UndefinedPath]
  /\ pagePath = "undefined"
  /\ hadError = [n \in Nodes |-> FALSE]
  /\ sink = EmptyBag
  /\ captured = EmptyBag
  /\ fetchState = [n \in Nodes |-> "idle"]
  /\ fetched = [n \in Nodes |-> Undefined]
  /\ ctxState = [n \in Nodes |-> "idle"]
  /\ ctxArg = [n \in Nodes |-> UndefinedCtx]
  /\ renderCtx = [n \in Nodes |-> UndefinedCtx]
  /\ headContent = <<"undefined">>
  /\ rState = [n \in Nodes |-> "idle"]
  /\ rArg = [n \in Nodes |-> << >>]
  /\ out = [n \in Nodes |-> << >>]

\* mutant: the page is constructed without looking the implementation up
hydratePageUnchecked ==
  /\ pc = "start"
  /\ pc' = "hydrating"
  /\ UNCHANGED <<inputVars, result, hydVars, errVars, fetchVars, ctxVars, headContent, renderVars>>

\* hydratePage: look the page implementation up; throw when there is none
hydratePage ==
  /\ pc = "start"
  /\ IF TemplateKeyOf(Root) \in pageRegistry
       THEN /\ pc' = "hydrating"
            /\ UNCHANGED result
       ELSE /\ pc' = "done"
            /\ result' = [status |-> "rejected", value |-> << >>, error |-> MissingTemplate]
  /\ UNCHANGED <<inputVars, hydVars, errVars, fetchVars, ctxVars, headContent, renderVars>>

\* one step of new PageType(page): the next step of the recursive constructor
Construct ==
  /\ pc = "hydrating"
  /\ hydIdx < Len(ConstructEvents(Root))
  /\ \E e \in {ConstructEvents(Root)[hydIdx + 1]} :
     LET n == e.node
     IN /\ hydIdx' = hydIdx + 1
        /\ CASE e.ev = "begin" ->
                  \* this.parent = parent, then Object.keys(areas)
                  /\ constructed' = constructed \cup {n}
                  /\ parent' = [parent EXCEPT ![n] = SerParent(n)]
                  /\ UNCHANGED <<page, areas, path, pagePath, errVars>>
             [] e.ev = "missing" ->
                  /\ logError(n, Err("missing template", e.child))
                  /\ UNCHANGED <<constructed, parent, page, areas, path, pagePath>>
             [] e.ev = "areaSet" ->
                  /\ areas' = [areas EXCEPT ![n] =
                                 Append(@, [name |-> e.area, list |-> HydratedList(n, e.area)])]
                  /\ UNCHANGED <<constructed, parent, page, path, pagePath, errVars>>
             [] e.ev = "finish" ->
                  /\ path' = [path EXCEPT ![n] = PathOf(n)]
                  /\ hadError' = [hadError EXCEPT ![n] = FALSE]
                  /\ page' = [page EXCEPT ![n] = FindPage(n)]
                  /\ pagePath' = IF n = Root THEN PagePathOfRecord ELSE pagePath
                  /\ UNCHANGED <<constructed, parent, areas, sink, captured>>
        /\ IF e.ev = "finish" /\ FindPage(n) = NoNode
             THEN /\ pc' = "done"
                  /\ result' = [status |-> "rejected", value |-> << >>,
                                error |-> HydrationFailed]
             ELSE IF e.ev = "begin" /\ n \in bare
             THEN /\ pc' = "done"
                  /\ result' = [status |-> "rejected", value |-> << >>, error |-> NoObject]
             ELSE UNCHANGED <<pc, result>>
  /\ UNCHANGED <<inputVars, fetchVars, ctxVars, headContent, renderVars>>

\* ------------------------------------------------------------------------
\* renderPage, phase 1: fetch
\* ------------------------------------------------------------------------

\* what a node's fetch resolves to (template code, opaque: its own data)
FetchValue(n) == n

\* componentsIncludingPage.map(async c => ...): every fetch is invoked, in
\* pre-order, before the first await of renderPage suspends it
StartFetch ==
  /\ pc = "hydrating"
  /\ hydIdx = Len(ConstructEvents(Root))
  /\ pc' = "fetching"
  /\ LET componentsIncludingPage == Live
     IN fetchState' = [n \in Nodes |-> IF n \in componentsIncludingPage THEN "pending"
                                        ELSE fetchState[n]]
  /\ UNCHANGED <<inputVars, result, hydVars, errVars, fetched, ctxVars, headContent, renderVars>>

\* c.fetched = await c.fetch(page, editMode)
FetchResolve(n) ==
  /\ fetched' = [fetched EXCEPT ![n] = FetchValue(n)]
  /\ fetchState' = [fetchState EXCEPT ![n] = "ok"]
  /\ UNCHANGED errVars

\* catch (e) { c.logError(e) }
FetchReject(n) ==
  /\ fetchState' = [fetchState EXCEPT ![n] = "failed"]
  /\ logError(n, Err("fetch", n))
  /\ UNCHANGED fetched

\* the fetch of one node settles; the order between nodes is free
FetchSettle ==
  /\ pc = "fetching"
  /\ \E n \in Nodes :
       /\ fetchState[n] = "pending"
       /\ \/ FetchResolve(n)
          \/ FetchReject(n)
  /\ UNCHANGED <<inputVars, pc, result, hydVars, ctxVars, headContent, renderVars>>

\* mutant: renderPage also waits for the nodes whose fetch was never invoked
FetchBarrierEveryNode == \A n \in Nodes : fetchState[n] \in {"ok", "failed"}

\* mutant: renderPage goes on as soon as the page's own fetch has settled
FetchBarrierPageOnly == fetchState[Root] # "pending"

\* await Promise.all(...) of the fetch phase has resolved
FetchBarrier == \A n \in Nodes : fetchState[n] # "pending"

\* mutant: the test of the extension is inverted
IsVariationInverted(ext) == ext = "" \/ ext = "html"

\* if (extension && extension !== 'html')
IsVariation(ext) == ext # "" /\ ext # "html"

\* ------------------------------------------------------------------------
\* renderPage, phase 2: context
\* ------------------------------------------------------------------------

\* what a node's setContext resolves to (template code, opaque: it advances
\* the header level and is tagged with the node that made it)
SetContextValue(n, arg) ==
  [def |-> TRUE, by |-> n, headerLevel |-> arg.headerLevel + 1]

\* mutant: the children of a node are called only once no other call is
\* pending anywhere in the tree
setContextFnLevelwise(n, rc, had) ==
  IF \E s \in Nodes \ {n} : ctxState[s] = "pending" THEN {}
  ELSE {<<c, rc[n]>> : c \in {x \in ChildSet(n) : ~had[x]}}

RECURSIVE setContextFn(_, _, _)
\* the setContext calls that setContextFn(n) starts before it suspends, as
\* pairs <<node, argument>>: a child without error is called with n's
\* renderCtx; for a child with hadError the call is skipped and setContextFn
\* of that child runs at once
setContextFn(n, rc, had) ==
  UNION {IF had[c] THEN setContextFn(c, rc, had) ELSE {<<c, rc[n]>>} : c \in ChildSet(n)}

\* the state of the context phase after node n settled as `how` with
\* renderCtx rc and flags had, and setContextFn(n) has started its calls
CtxAfter(n, how, rc, had) ==
  LET started == setContextFn(n, rc, had)
      Started(m) == \E p \in started : p[1] = m
      ArgOf(m) == (CHOOSE p \in started : p[1] = m)[2]
  IN /\ ctxState' = [m \in Nodes |-> IF Started(m) THEN "pending"
                                      ELSE IF m = n THEN how ELSE ctxState[m]]
     /\ ctxArg' = [m \in Nodes |-> IF Started(m) THEN ArgOf(m) ELSE ctxArg[m]]
     /\ renderCtx' = rc

\* after the fetch phase: return the variation, or invoke the page's setContext
AfterFetch ==
  /\ pc = "fetching"
  /\ FetchBarrier
  /\ IF IsVariation(extension)
       THEN /\ pc' = "variation"
            /\ UNCHANGED ctxVars
       ELSE /\ pc' = "rootctx"
            /\ ctxState' = [ctxState EXCEPT ![Root] = "pending"]
            /\ ctxArg' = [ctxArg EXCEPT ![Root] = InitialCtx]
            /\ UNCHANGED renderCtx
  /\ UNCHANGED <<inputVars, result, hydVars, errVars, fetchVars, headContent, renderVars>>

\* pageComponent.renderCtx = await pageComponent.setContext(...) resolved;
\* executeSetContext(editMode)(pageComponent) starts
RootCtxResolve ==
  /\ pc' = "context"
  /\ CtxAfter(Root, "done",
              [renderCtx EXCEPT ![Root] = SetContextValue(Root, ctxArg[Root])], hadError)
  /\ UNCHANGED result

\* the page's setContext threw: there is no try around it in renderPage
RootCtxReject ==
  /\ pc' = "done"
  /\ ctxState' = [ctxState EXCEPT ![Root] = "failed"]
  /\ result' = [status |-> "rejected", value |-> << >>, error |-> "setContext threw"]
  /\ UNCHANGED <<ctxArg, renderCtx>>

RootCtxSettle ==
  /\ pc = "rootctx"
  /\ \/ RootCtxResolve
     \/ RootCtxReject
  /\ UNCHANGED <<inputVars, hydVars, errVars, fetchVars, headContent, renderVars>>

\* c.renderCtx = await c.setContext(component.renderCtx, editMode) resolved
CtxResolve(c) ==
  /\ CtxAfter(c, "done",
              [renderCtx EXCEPT ![c] = SetContextValue(c, ctxArg[c])], hadError)
  /\ UNCHANGED errVars

\* catch (e) { c.logError(e) }, then setContextFn(c) all the same
CtxReject(c) ==
  /\ logError(c, Err("setContext", c))
  /\ CtxAfter(c, "failed", renderCtx, LogErrorFlag(c, hadError))

\* the setContext of one non-root node settles
CtxSettle ==
  /\ pc = "context"
  /\ \E c \in Nodes :
       /\ ctxState[c] = "pending"
       /\ \/ CtxResolve(c)
          \/ CtxReject(c)
  /\ UNCHANGED <<inputVars, pc, result, hydVars, fetchVars, headContent, renderVars>>

\* mutant: the calls made for the children of the children are not awaited
CtxBarrierChildrenOnly == \A n \in ChildSet(Root) : ctxState[n] # "pending"

\* await executeSetContext(...) has resolved
CtxBarrier == \A n \in Nodes : ctxState[n] # "pending"

\* ------------------------------------------------------------------------
\* renderPage: head content
\* ------------------------------------------------------------------------

\* mutant: the lists are joined as they are
DedupeNone(list) == list

RECURSIVE Dedupe(_)
\* Array.from(new Set(list)): first occurrences, in order
Dedupe(list) ==
  IF list = << >> THEN << >>
  ELSE LET rest == Dedupe(SelectSeq(Tail(list), LAMBDA x : x # Head(list)))
       IN <<Head(list)>> \o rest

\* Component.jsUrls() / cssUrls() of the templates of the model
jsUrls(n) == IF TemplateKeyOf(n) = "text" THEN <<"/shared.js">> ELSE << >>

cssUrls(n) == IF TemplateKeyOf(n) \in {"text", "panel"} THEN <<"/shared.css">> ELSE << >>

\* the static javascript / css blocks of the templates of the model
HasJavascript(key) == key = "panel"

HasCss(key) == key \in {"home", "text"}

\* the string assigned to pageComponent.headContent (editMode = false), as
\* the list of its lines
HeadContentOf(components) ==
  LET keysWith(Has(_)) ==
        Dedupe([i \in 1..Len(SelectSeq(components, LAMBDA c : Has(TemplateKeyOf(c)))) |->
                  TemplateKeyOf(SelectSeq(components, LAMBDA c : Has(TemplateKeyOf(c)))[i])])
      urls(f(_)) == Dedupe(Concat([i \in 1..Len(components) |-> f(components[i])]))
      tag(kind, list) == [i \in 1..Len(list) |-> <<kind, list[i]>>]
  IN tag("script src", urls(jsUrls))
       \o tag("link href", urls(cssUrls))
       \o tag("script /.resources js", keysWith(HasJavascript))
       \o tag("link /.resources css", keysWith(HasCss))

\* after the context phase: assign headContent, enter the render phase
AfterContext ==
  /\ pc = "context"
  /\ CtxBarrier
  /\ \E componentsIncludingPage \in {collectComponents(Root)} :
       headContent' = HeadContentOf(componentsIncludingPage)
  /\ pc' = "rendering"
  /\ UNCHANGED <<inputVars, result, hydVars, errVars, fetchVars, ctxVars, renderVars>>

\* ------------------------------------------------------------------------
\* renderPage, phase 3: render, and the variation path
\* ------------------------------------------------------------------------

RECURSIVE renderOrderParentFirst(_, _)
\* mutant: a node is rendered before its children
renderOrderParentFirst(n, had) ==
  LET list == Children(n)
  IN IF had[n] THEN <<n>>
     ELSE <<n>> \o Concat([i \in 1..Len(list) |-> renderOrderParentFirst(list[i], had)])

RECURSIVE renderOrder(_, _)
\* the order in which the calls of renderFn return: a node with hadError
\* returns at once, any other node after the renderFn of each child, area by
\* area (list.map(renderFn))
renderOrder(n, had) ==
  LET list == Children(n)
  IN IF had[n] THEN <<n>>
     ELSE Concat([i \in 1..Len(list) |-> renderOrder(list[i], had)]) \o <<n>>

\* the renderFn call that returns next
NextToRender ==
  LET order == renderOrder(Root, hadError)
      todo == SelectSeq(order, LAMBDA n : rState[n] = "idle")
  IN IF todo = << >> THEN NoNode ELSE Head(todo)

\* renderedAreas as renderComponent builds it: per area the list of outputs
RenderedAreas(n) ==
  [k \in 1..Len(areas[n]) |->
     [name |-> areas[n][k].name,
      val |-> [i \in 1..Len(areas[n][k].list) |-> out[areas[n][k].list[i]]]]]

\* renderedAreas as renderVariation builds it: per area areaList.join('')
JoinedAreas(n) ==
  [k \in 1..Len(areas[n]) |->
     [name |-> areas[n][k].name,
      val |-> Concat([i \in 1..Len(areas[n][k].list) |-> out[areas[n][k].list[i]]])]]

\* what a node's render returns (template code, opaque: its own mark followed
\* by the output of its areas)
RenderValue(n, rendered) ==
  <<n>> \o Concat([k \in 1..Len(rendered) |-> Concat(rendered[k].val)])

\* what a node's renderVariation returns: the "text" template emits an item,
\* the other templates keep the default, Array.from(values()).join('')
RenderVariationValue(n, joined) ==
  (IF TemplateKeyOf(n) = "text" THEN <<n>> ELSE << >>)
    \o Concat([k \in 1..Len(joined) |-> joined[k].val])

\* if (component.hadError) return ''
RenderBlank(n) ==
  /\ hadError[n]
  /\ rState' = [rState EXCEPT ![n] = "blanked"]
  /\ out' = [out EXCEPT ![n] = << >>]
  /\ UNCHANGED <<rArg, errVars>>

\* mutant: the render is invoked whatever hadError says
RenderReturnRegardless(n, arg, value) ==
  /\ rArg' = [rArg EXCEPT ![n] = arg]
  /\ rState' = [rState EXCEPT ![n] = "returned"]
  /\ out' = [out EXCEPT ![n] = value]
  /\ UNCHANGED errVars

\* return component.render(renderedAreas, editMode)
RenderReturn(n, arg, value) ==
  /\ ~hadError[n]
  /\ rArg' = [rArg EXCEPT ![n] = arg]
  /\ rState' = [rState EXCEPT ![n] = "returned"]
  /\ out' = [out EXCEPT ![n] = value]
  /\ UNCHANGED errVars

\* mutant: the error of a render is caught one frame up and logged on the
\* parent of the node
RenderThrowAtParent(n, arg, kind) ==
  /\ ~hadError[n]
  /\ rArg' = [rArg EXCEPT ![n] = arg]
  /\ rState' = [rState EXCEPT ![n] = "threw"]
  /\ out' = [out EXCEPT ![n] = << >>]
  /\ logError(IF parent[n] = NoNode THEN n ELSE parent[n], Err(kind, n))

\* catch (e) { component.logError(e); return '' }
RenderThrow(n, arg, kind) ==
  /\ ~hadError[n]
  /\ rArg' = [rArg EXCEPT ![n] = arg]
  /\ rState' = [rState EXCEPT ![n] = "threw"]
  /\ out' = [out EXCEPT ![n] = << >>]
  /\ logError(n, Err(kind, n))

\* one call of renderComponent's renderFn returns
RenderStep ==
  /\ pc = "rendering"
  /\ NextToRender # NoNode
  /\ \E n \in {NextToRender} :
        \/ RenderBlank(n)
        \/ RenderReturn(n, RenderedAreas(n), RenderValue(n, RenderedAreas(n)))
        \/ RenderThrow(n, RenderedAreas(n), "render")
  /\ UNCHANGED <<inputVars, pc, result, hydVars, fetchVars, ctxVars, headContent>>

\* one call of renderVariation's renderFn returns
VariationStep ==
  /\ pc = "variation"
  /\ NextToRender # NoNode
  /\ \E n \in {NextToRender} :
        \/ RenderBlank(n)
        \/ RenderReturn(n, JoinedAreas(n), RenderVariationValue(n, JoinedAreas(n)))
        \/ RenderThrow(n, JoinedAreas(n), "renderVariation")
  /\ UNCHANGED <<inputVars, pc, result, hydVars, fetchVars, ctxVars, headContent>>

\* renderPage returns what renderFn(pageComponent) returned
Return ==
  /\ pc \in {"rendering", "variation"}
  /\ NextToRender = NoNode
  /\ pc' = "done"
  /\ result' = [status |-> "resolved", value |-> out[Root], error |-> ""]
  /\ UNCHANGED <<inputVars, hydVars, errVars, fetchVars, ctxVars, headContent, renderVars>>

Next ==
  \/ hydratePage
  \/ Construct
  \/ StartFetch
  \/ FetchSettle
  \/ AfterFetch
  \/ RootCtxSettle
  \/ CtxSettle
  \/ AfterContext
  \/ RenderStep
  \/ VariationStep
  \/ Return


\* ------------------------------------------------------------------------
\* The template registry: addTemplate, addProvider, versionGreater
\* ------------------------------------------------------------------------

\* a version string as its three numbers, or no version at all
NoVersion == << >>

SemVers == {<<major, minor, 0>> : major \in 1..MaxMajor, minor \in {2, 10}}

BlockVersions == {NoVersion} \cup SemVers

\* semver.gt: the numbers are compared one after the other as numbers
semverGt(v2, v1) ==
  \/ v2[1] > v1[1]
  \/ v2[1] = v1[1] /\ v2[2] > v1[2]
  \/ v2[1] = v1[1] /\ v2[2] = v1[2] /\ v2[3] > v1[3]

\* mutant: a block without version wins over a block that has one
versionGreaterUnversionedWins(v2, v1) ==
  IF v2 = NoVersion THEN TRUE
  ELSE IF v1 = NoVersion THEN TRUE
  ELSE semverGt(v2, v1)

\* versionGreater(v2, v1)
versionGreater(v2, v1) ==
  IF v2 = NoVersion THEN FALSE
  ELSE IF v1 = NoVersion THEN TRUE
  ELSE semverGt(v2, v1)

CssNames == {"jquery-ui", "fonts"}

JsNames == {"jquery-ui"}

\* a block: its version and the text it carries
Block(version, text) == [version |-> version, text |-> text]

\* what Map.get returns for a name that was never set
NoBlock == Block(NoVersion, "undefined")

BlockTexts == {"a", "b"}

Entry(name, block) == [name |-> name, block |-> block]

\* the resource providers handed to addProvider: one css block or one js block
Providers ==
  {[js |-> << >>, css |-> <<Entry(n, Block(v, t))>>] :
     n \in CssNames, v \in BlockVersions, t \in BlockTexts}
  \cup
  {[js |-> <<Entry(n, Block(v, t))>>, css |-> << >>] :
     n \in JsNames, v \in BlockVersions, t \in BlockTexts}

\* the template classes handed to addTemplate: a page template and a
\* component template, each with blocks of its own
Templates ==
  { [templateKey |-> "home", extendsPage |-> TRUE,
     js |-> <<Entry("jquery-ui", Block(<<1, 10, 0>>, "home"))>>,
     css |-> <<Entry("fonts", Block(NoVersion, "home"))>>],
    [templateKey |-> "text", extendsPage |-> FALSE,
     js |-> <<Entry("jquery-ui", Block(<<1, 2, 0>>, "text"))>>,
     css |-> <<Entry("jquery-ui", Block(<<2, 2, 0>>, "text")),
               Entry("fonts", Block(<<1, 2, 0>>, "text"))>>] }

\* one turn of a loop over the blocks of a provider:
\* if (!existing || versionGreater(block.version, existing.version)) set
RegisterBlock(map, e) ==
  LET existing == map[e.name]
  IN IF existing = NoBlock \/ versionGreater(e.block.version, existing.version)
     THEN [map EXCEPT ![e.name] = e.block]
     ELSE map

RECURSIVE RegisterBlocks(_, _)
\* the loop over the entries of jsBlocks / cssBlocks
RegisterBlocks(map, entries) ==
  IF entries = << >> THEN map
  ELSE RegisterBlocks(RegisterBlock(map, Head(entries)), Tail(entries))

\* the blocks a call hands over, as they are remembered for the properties
Seen(kind, entries) == {[kind |-> kind, name |-> entries[i].name, block |-> entries[i].block] :
                          i \in DOMAIN entries}

\* template instanceof Page, for the class object addTemplate is given: a
\* class is a function, and no function has Page.prototype in its chain
InstanceOfPage(template) == FALSE

\* the registry before any call
RegIdle ==
  /\ regPages = {}
  /\ regComponents = {}
  /\ regAll = << >>
  /\ cssblocks = [n \in CssNames |-> NoBlock]
  /\ jsblocks = [n \in JsNames |-> NoBlock]
  /\ regSeen = {}
  /\ regCalls = 0

\* the two loops over the blocks, shared by addTemplate and addProvider
AddBlocks(p) ==
  /\ jsblocks' = RegisterBlocks(jsblocks, p.js)
  /\ cssblocks' = RegisterBlocks(cssblocks, p.css)
  /\ regSeen' = regSeen \cup Seen("js", p.js) \cup Seen("css", p.css)

\* templateRegistry.addTemplate(template)
addTemplate ==
  /\ regCalls < MaxCalls
  /\ regCalls' = regCalls + 1
  /\ \E template \in Templates :
       /\ IF InstanceOfPage(template)
            THEN /\ regPages' = regPages \cup {template.templateKey}
                 /\ UNCHANGED regComponents
            ELSE /\ regComponents' = regComponents \cup {template.templateKey}
                 /\ UNCHANGED regPages
       /\ regAll' = Append(regAll, template.templateKey)
       /\ AddBlocks(template)
  /\ UNCHANGED <<hdrVars, migVars>>
  /\ UNCHANGED <<pageRegistry, componentRegistry, extension, rootIsPage, bare, pc, result,
                 hydVars,
                 errVars, fetchVars, ctxVars, headContent, renderVars>>

\* templateRegistry.addProvider(provider)
addProvider ==
  /\ regCalls < MaxCalls
  /\ regCalls' = regCalls + 1
  /\ \E provider \in Providers : AddBlocks(provider)
  /\ UNCHANGED <<regPages, regComponents, regAll>>
  /\ UNCHANGED <<hdrVars, migVars>>
  /\ UNCHANGED <<pageRegistry, componentRegistry, extension, rootIsPage, bare, pc, result,
                 hydVars,
                 errVars, fetchVars, ctxVars, headContent, renderVars>>

RegNext ==
  \/ addTemplate
  \/ addProvider

\* ------------------------------------------------------------------------
\* render.ts: printHeader
\* ------------------------------------------------------------------------

\* ctx.headerLevel: a number, or undefined
Level(n) == [def |-> TRUE, n |-> n]

UndefinedLevel == [def |-> FALSE, n |-> 0]

HeaderLevels == {UndefinedLevel} \cup {Level(n) : n \in (0 - MaxHeaderLevel) .. MaxHeaderLevel}

\* content: undefined, null, or a string (the list of its characters)
Str(chars) == [kind |-> "string", chars |-> chars]

Contents ==
  { [kind |-> "undefined", chars |-> << >>],
    [kind |-> "null", chars |-> << >>],
    Str(<< >>),
    Str(<<" ">>),
    Str(<<" ", "\t">>),
    Str(<<"T", "i">>),
    Str(<<" ", "<", "b", ">">>) }

\* attributes: undefined, an object without keys, or an object with keys
AttributeSets ==
  { [def |-> FALSE, entries |-> << >>],
    [def |-> TRUE, entries |-> << >>],
    [def |-> TRUE, entries |-> <<[key |-> "class", val |-> <<"x", "\"", "y">>]>>],
    [def |-> TRUE, entries |-> <<[key |-> "class", val |-> <<"x">>],
                                 [key |-> "id", val |-> <<"a", "&">>]>>] }

\* isBlank of txstate-utils: undefined, null, or nothing but white space
isBlank(content) ==
  \/ content.kind # "string"
  \/ \A i \in DOMAIN content.chars : content.chars[i] \in {" ", "\t", "\n"}

\* isNotEmpty of txstate-utils, for an object: defined and with a key
isNotEmpty(attributes) == attributes.def /\ attributes.entries # << >>

\* htmlEncode of txstate-utils, character by character
htmlEncode(chars) ==
  [i \in DOMAIN chars |->
     CASE chars[i] = "\"" -> "&quot;"
       [] chars[i] = "&" -> "&amp;"
       [] chars[i] = "<" -> "&lt;"
       [] chars[i] = ">" -> "&gt;"
       [] OTHER -> chars[i]]

\* ' ' + entries.map(([key, val]) => `${key}="${htmlEncode(val)}"`).join(' ')
AttrString(attributes) ==
  IF isNotEmpty(attributes)
  THEN Concat([i \in DOMAIN attributes.entries |->
                 <<" ", attributes.entries[i].key, "=\"">>
                   \o htmlEncode(attributes.entries[i].val) \o <<"\"">>])
  ELSE << >>

\* the string `<h${open}${attr}>${content}</h${close}>`, or the empty string
Header(open, attr, content, close) ==
  [empty |-> FALSE, open |-> open, attr |-> attr, content |-> content, close |-> close]

EmptyString == [empty |-> TRUE, open |-> 0, attr |-> << >>, content |-> << >>, close |-> 0]

\* mutant: the header above level 6 is closed with the tag of level 1
printHeaderMismatched(ctx, content, attributes) ==
  IF isBlank(content) THEN EmptyString
  ELSE LET level == IF ctx.def THEN ctx.n ELSE 1
           attr == AttrString(attributes)
       IN IF level < 1 THEN Header(1, attr, content.chars, 1)
          ELSE IF level > 6 THEN Header(6, attr, content.chars, 1)
          ELSE Header(level, attr, content.chars, level)

\* printHeader(ctx, content, attributes)
printHeader(ctx, content, attributes) ==
  IF isBlank(content) THEN EmptyString
  ELSE LET level == IF ctx.def THEN ctx.n ELSE 1
           attr == AttrString(attributes)
       IN IF level < 1 THEN Header(1, attr, content.chars, 1)
          ELSE IF level > 6 THEN Header(6, attr, content.chars, 6)
          ELSE Header(level, attr, content.chars, level)

\* a reference to a context object: the headerLevel read through it, and
\* whether it is the object that was passed in
Ref(level, same) == [headerLevel |-> level, same |-> same]

NoRef == Ref(UndefinedLevel, FALSE)

\* advanceHeader(ctx, content): ctx is the headerLevel held by the object
\* passed in; the outcome is what that object holds afterwards and the
\* reference that is returned
advanceHeader(ctx, content) ==
  LET after == IF ~isBlank(content)
               THEN Level((IF ctx.def THEN ctx.n ELSE 1) + 1)
               ELSE ctx
  IN [ctx |-> after, ret |-> Ref(after, TRUE)]

\* no call of a header helper has been made
HdrIdle ==
  /\ hdrPc = "idle"
  /\ hdrLevel = UndefinedLevel
  /\ hdrContent = Str(<< >>)
  /\ hdrAttrs = [def |-> FALSE, entries |-> << >>]
  /\ hdrOut = EmptyString
  /\ hdrCtx = UndefinedLevel
  /\ hdrRet = NoRef

\* ------------------------------------------------------------------------
\* Migration: collectTemplates, processMigration, migratePage
\* ------------------------------------------------------------------------

\* a ComponentData record: templateKey, own data, areas in key order
Comp(key, as) == [templateKey |-> key, fields |-> {}, areas |-> as, noAreas |-> FALSE]

\* a ComponentData record that has no areas property
BareComp(key) == [templateKey |-> key, fields |-> {}, areas |-> << >>, noAreas |-> TRUE]

Area(name, list) == [name |-> name, list |-> list]

\* the shapes of the pages handed to migratePage: a page without any area
\* key, a page with an empty area, a page with one child, and a page with a
\* nested child
PageShapes ==
  { Comp("home", << >>),
    Comp("home", <<Area("main", << >>)>>),
    Comp("home", <<Area("main", <<Comp("text", << >>)>>)>>),
    Comp("home", <<Area("main", <<Comp("panel", <<Area("main", <<Comp("text", << >>)>>)>>),
                                  Comp("text", << >>)>>),
                   Area("side", << >>)>>) }

Versions == 0 .. MaxVersion

\* the key a converting migration function leaves on the node it returns
ConvertedKey == "widget-v9"

\* a Migration object: createdAt, up, down (down may be left out), and what
\* its functions do to the node (they record the id in the node's data; the
\* converter also changes the node's templateKey)
MigrationObj(id, at, noDown, converter) ==
  [id |-> id, createdAt |-> at,
   up |-> "up",
   down |-> IF id \in noDown THEN "undefined" ELSE "down",
   converts |-> (id = converter)]

\* templateRegistry.all: every registered template with its migrations
RegistryAll(noDown, converter) ==
  << [templateKey |-> "home",
      migrations |-> << MigrationObj(3, 3, noDown, converter),
                        MigrationObj(1, 1, noDown, converter) >>],
     [templateKey |-> "panel", migrations |-> << >>],
     [templateKey |-> "text",
      migrations |-> << MigrationObj(2, 2, noDown, converter) >>],
     [templateKey |-> "widget-v9",
      migrations |-> << MigrationObj(4, 2, noDown, converter) >>] >>

\* the data of a page that was saved at a version: every node carries the ids
\* of the migrations of its template created before that version
RECURSIVE SavedAt(_, _)
SavedAt(component, version) ==
  LET all == RegistryAll({}, 0)
      own == UNION {{all[t].migrations[k].id :
                       k \in {x \in DOMAIN all[t].migrations :
                                all[t].migrations[x].createdAt < version}} :
                    t \in {x \in DOMAIN all : all[x].templateKey = component.templateKey}}
      as == component.areas
  IN [templateKey |-> component.templateKey,
      fields |-> own,
      areas |-> [i \in DOMAIN as |->
                   Area(as[i].name, [j \in DOMAIN as[i].list |-> SavedAt(as[i].list[j], version)])],
      noAreas |-> component.noAreas]

\* the pages handed to migratePage with savedAtVersion = version
PageInputs(version) == {SavedAt(shape, version) : shape \in PageShapes}

\* what the up and down functions of a migration return
up(migration, component) ==
  [component EXCEPT !.fields = @ \cup {migration.id},
                    !.templateKey = IF migration.converts THEN ConvertedKey ELSE @]

down(migration, component) ==
  [component EXCEPT !.fields = @ \ {migration.id},
                    !.templateKey = IF migration.converts THEN ConvertedKey ELSE @]

\* the elements of a list
Members(list) == {list[i] : i \in 1..Len(list)}

\* collectTemplates: the templateKeys of the record and of all it holds
RECURSIVE collectTemplates(_)
collectTemplates(component) ==
  LET as == component.areas
  IN <<component.templateKey>> \o
     Concat([i \in DOMAIN as |->
               Concat([j \in DOMAIN as[i].list |-> collectTemplates(as[i].list[j])])])

\* does Object.values(component.areas) throw somewhere on the walk of
\* collectTemplates: is there a record without areas
RECURSIVE HasBare(_)
HasBare(component) ==
  LET as == component.areas
  IN \/ component.noAreas
     \/ \E i \in DOMAIN as : \E j \in DOMAIN as[i].list : HasBare(as[i].list[j])

\* mutant: newAreas holds a list for every area key
NewAreasKeysFilled == {"main", "side"}

\* the keys of newAreas when the loops of processMigration read it: the
\* object literal it was created from has none
NewAreasKeys == {}

Thrown(e, calls) == [ok |-> FALSE, component |-> Comp("", << >>), calls |-> calls, error |-> e]

PushOfUndefined == "TypeError: Cannot read properties of undefined (reading 'push')"

NotIterable == "TypeError: undefined is not iterable"

NotAFunction == "TypeError: migrate is not a function"

\* the call of migrate(component) at the end of processMigration
Migrate(migrate, migration, component, calls) ==
  IF migrate = "undefined"
  THEN Thrown(NotAFunction, calls)
  ELSE [ok |-> TRUE,
        component |-> IF migrate = "up" THEN up(migration, component)
                      ELSE down(migration, component),
        calls |-> Append(calls, [id |-> migration.id, createdAt |-> migration.createdAt,
                               fn |-> migrate, node |-> component]),
        error |-> ""]

\* mutant: the function is applied to every node
MatchesAny(migration, component) == TRUE

\* if (migration.templateKey === component.templateKey)
Matches(migration, component) == migration.templateKey = component.templateKey

\* processMigration: the promise it returns, with the calls of up/down made
\* on the way
RECURSIVE processMigration(_, _, _)
processMigration(component, migration, backward) ==
  LET migrate == IF backward THEN migration.down ELSE migration.up
      as == component.areas
  IN IF component.noAreas
     THEN Thrown(NoObject, << >>)
     ELSE IF \E i \in DOMAIN as : as[i].list # << >> /\ as[i].name \notin NewAreasKeys
     THEN Thrown(PushOfUndefined, << >>)
     ELSE IF \E i \in DOMAIN as : as[i].name \notin NewAreasKeys
     THEN Thrown(NotIterable, << >>)
     ELSE
       LET sub == [i \in DOMAIN as |->
                     [j \in DOMAIN as[i].list |->
                        processMigration(as[i].list[j], migration, backward)]]
           calls == Concat([i \in DOMAIN as |->
                              Concat([j \in DOMAIN sub[i] |-> sub[i][j].calls])])
           errors == UNION {{sub[i][j].error : j \in {k \in DOMAIN sub[i] : ~sub[i][k].ok}} :
                            i \in DOMAIN as}
           processed ==
             [component EXCEPT !.areas =
                [i \in DOMAIN as |->
                   Area(as[i].name, [j \in DOMAIN sub[i] |-> sub[i][j].component])]]
       IN IF errors # {}
          THEN Thrown(CHOOSE e \in errors : TRUE, calls)
          ELSE IF Matches(migration, component)
          THEN Migrate(migrate, migration, processed, calls)
          ELSE [ok |-> TRUE, component |-> processed, calls |-> calls, error |-> ""]

\* the object processMigration was given, as the call leaves it: the second
\* loop assigns component.areas[areaKey] key by key until an await throws;
\* the children that stay in their list were worked on in the same way
RECURSIVE InPlace(_, _, _)
InPlace(component, migration, backward) ==
  LET as == component.areas
  IN IF component.noAreas THEN component
     ELSE IF \E i \in DOMAIN as : as[i].list # << >> /\ as[i].name \notin NewAreasKeys
     THEN component
     ELSE
       LET sub == [i \in DOMAIN as |->
                     [j \in DOMAIN as[i].list |->
                        processMigration(as[i].list[j], migration, backward)]]
           awaited(i) == as[i].name \in NewAreasKeys /\ \A j \in DOMAIN sub[i] : sub[i][j].ok
           assigned(i) == \A k \in 1..i : awaited(k)
       IN [component EXCEPT !.areas =
             [i \in DOMAIN as |->
                IF assigned(i)
                THEN Area(as[i].name, [j \in DOMAIN sub[i] |-> sub[i][j].component])
                ELSE Area(as[i].name,
                          [j \in DOMAIN as[i].list |->
                             InPlace(as[i].list[j], migration, backward)])]]

\* the object that was passed to migratePage: its data, its savedAtVersion,
\* and whether the variable page of migratePage still refers to it
Passed(data, version, aliased) ==
  [data |-> data, savedAtVersion |-> version, aliased |-> aliased]

\* mutant: the bounds of the window are included
InWindowInclusive(m, from, to, backward) ==
  IF backward
  THEN m.createdAt <= from /\ m.createdAt >= to
  ELSE m.createdAt >= from /\ m.createdAt <= to

\* the test of the time window in the filter of migratePage
InWindow(m, from, to, backward) ==
  IF backward
  THEN m.createdAt < from /\ m.createdAt > to
  ELSE m.createdAt > from /\ m.createdAt < to

\* index of the first element that sorts first
FirstBy(s, descending) ==
  CHOOSE i \in DOMAIN s :
    /\ \A j \in DOMAIN s :
         IF descending THEN s[j].createdAt <= s[i].createdAt
         ELSE s[j].createdAt >= s[i].createdAt
    /\ \A j \in DOMAIN s : s[j].createdAt = s[i].createdAt => i <= j

\* mutant: the direction of the sort is ignored
RECURSIVE sortbyAscending(_, _)
sortbyAscending(s, descending) ==
  IF s = << >> THEN << >>
  ELSE LET i == FirstBy(s, FALSE)
       IN <<s[i]>> \o sortbyAscending(SubSeq(s, 1, i - 1) \o SubSeq(s, i + 1, Len(s)), descending)

\* sortby(migrations, 'createdAt', backward)
RECURSIVE sortby(_, _)
sortby(s, descending) ==
  IF s = << >> THEN << >>
  ELSE LET i == FirstBy(s, descending)
       IN <<s[i]>> \o sortby(SubSeq(s, 1, i - 1) \o SubSeq(s, i + 1, Len(s)), descending)

\* mutant: the key a migration may leave in the tree counts as in use
templateKeysInUseWithConverted(p) == Members(collectTemplates(p)) \cup {ConvertedKey}

\* mutant: every registered template counts as in use
templateKeysInUseAll(p) == {"home", "panel", "text", "widget-v9"}

\* new Set(collectTemplates(page))
templateKeysInUse(p) == Members(collectTemplates(p))

\* the filter / flatMap / filter chain of migratePage
Selected(all, inUse, from, to, backward) ==
  LET kept == SelectSeq(all, LAMBDA p : p.templateKey \in inUse)
      flat == Concat([i \in DOMAIN kept |->
                [k \in DOMAIN kept[i].migrations |->
                   [id |-> kept[i].migrations[k].id,
                    createdAt |-> kept[i].migrations[k].createdAt,
                    up |-> kept[i].migrations[k].up,
                    down |-> kept[i].migrations[k].down,
                    converts |-> kept[i].migrations[k].converts,
                    templateKey |-> kept[i].templateKey]]])
  IN SelectSeq(flat, LAMBDA m : InWindow(m, from, to, backward))

\* no migratePage call is in progress
MigIdle ==
  /\ mpc = "idle"
  /\ mInput = Comp("home", << >>)
  /\ mFrom = 0
  /\ mTo = 0
  /\ mNoDown = {}
  /\ mConverter = 0
  /\ mPage = Comp("home", << >>)
  /\ sortedMigrations = << >>
  /\ mIdx = 0
  /\ mCalls = << >>
  /\ mResult = [status |-> "pending", value |-> Comp("", << >>), savedAtVersion |-> 0, error |-> ""]
  /\ mRound = 1
  /\ mOrigin = Comp("home", << >>)
  /\ mObject = Passed(Comp("home", << >>), 0, TRUE)

\* the state at the call of migratePage(page, toSchemaVersion)
MigInit ==
  /\ pageRegistry = PageKeys
  /\ componentRegistry = ComponentKeys
  /\ extension = "html"
  /\ rootIsPage = TRUE
  /\ bare = {}
  /\ RenderIdle
  /\ RegIdle
  /\ HdrIdle
  /\ mpc = "start"
  /\ mFrom \in Versions
  /\ mInput \in PageInputs(mFrom)
  /\ mTo \in Versions
  /\ mNoDown \in SUBSET {1, 2}
  /\ mConverter \in {0, 1, 3}
  /\ mPage = mInput
  /\ sortedMigrations = << >>
  /\ mIdx = 0
  /\ mCalls = << >>
  /\ mResult = [status |-> "pending", value |-> Comp("", << >>), savedAtVersion |-> 0, error |-> ""]
  /\ mRound = 1
  /\ mOrigin = mInput
  /\ mObject = Passed(mInput, mFrom, TRUE)

\* mutant: the comparison of the two versions is inverted
BackwardInverted == mFrom < mTo

\* const backward = fromSchemaVersion > toSchemaVersion
Backward == mFrom > mTo

\* migratePage up to the loop: select and sort the migrations
MigStart ==
  /\ mpc = "start"
  /\ IF HasBare(mPage)
       THEN /\ mResult' = [mResult EXCEPT !.status = "rejected", !.error = NoObject]
            /\ mpc' = "done"
            /\ UNCHANGED <<sortedMigrations, mIdx>>
       ELSE /\ sortedMigrations' =
                 sortby(Selected(RegistryAll(mNoDown, mConverter), templateKeysInUse(mPage),
                                 mFrom, mTo, Backward),
                        Backward)
            /\ mIdx' = 1
            /\ mpc' = "applying"
            /\ UNCHANGED mResult
  /\ UNCHANGED <<mInput, mFrom, mTo, mNoDown, mConverter, mPage, mCalls, mRound, mOrigin, mObject>>
  /\ UNCHANGED <<regVars, hdrVars, pageRegistry, componentRegistry, extension, rootIsPage, bare, pc, result,
                 hydVars,
                 errVars, fetchVars, ctxVars, headContent, renderVars>>

\* one turn of the loop: page = await processMigration(page, migration, backward)
MigApply ==
  /\ mpc = "applying"
  /\ mIdx <= Len(sortedMigrations)
  /\ LET r == processMigration(mPage, sortedMigrations[mIdx], Backward)
     IN /\ mCalls' = mCalls \o r.calls
        /\ IF r.ok
           THEN /\ mPage' = r.component
                /\ mIdx' = mIdx + 1
                /\ UNCHANGED <<mpc, mResult>>
           ELSE /\ mResult' = [mResult EXCEPT !.status = "rejected", !.error = r.error]
                /\ mpc' = "done"
                /\ UNCHANGED <<mPage, mIdx>>
        \* what the call did to the object that was passed in: its areas are
        \* assigned in place; a migration function that ran on the page
        \* returned an object of its own
        /\ mObject' =
             IF mObject.aliased
             THEN Passed(InPlace(mPage, sortedMigrations[mIdx], Backward),
                         mObject.savedAtVersion,
                         ~(r.ok /\ Matches(sortedMigrations[mIdx], mPage)))
             ELSE mObject
  /\ UNCHANGED <<mInput, mFrom, mTo, mNoDown, mConverter, sortedMigrations, mRound, mOrigin>>
  /\ UNCHANGED <<regVars, hdrVars, pageRegistry, componentRegistry, extension, rootIsPage, bare, pc, result,
                 hydVars,
                 errVars, fetchVars, ctxVars, headContent, renderVars>>

\* after the loop: page.savedAtVersion = toSchemaVersion; return page
MigFinish ==
  /\ mpc = "applying"
  /\ mIdx > Len(sortedMigrations)
  /\ mResult' = [status |-> "resolved", value |-> mPage, savedAtVersion |-> mTo, error |-> ""]
  /\ mObject' = IF mObject.aliased THEN [mObject EXCEPT !.savedAtVersion = mTo] ELSE mObject
  /\ mpc' = "done"
  /\ UNCHANGED <<mInput, mFrom, mTo, mNoDown, mConverter, mPage, sortedMigrations, mIdx, mCalls,
                 mRound, mOrigin>>
  /\ UNCHANGED <<regVars, hdrVars, pageRegistry, componentRegistry, extension, rootIsPage, bare, pc, result,
                 hydVars,
                 errVars, fetchVars, ctxVars, headContent, renderVars>>

\* the page a call returned is handed to migratePage again, to be taken back
\* to the version it came from: migratePage(migratePage(page, V2), V1)
MigBack ==
  /\ mpc = "done"
  /\ mRound = 1
  /\ mResult.status = "resolved"
  /\ mRound' = 2
  /\ mInput' = mResult.value
  /\ mPage' = mResult.value
  /\ mFrom' = mResult.savedAtVersion
  /\ mTo' = mFrom
  /\ mpc' = "start"
  /\ sortedMigrations' = << >>
  /\ mIdx' = 0
  /\ mCalls' = << >>
  /\ mResult' = [status |-> "pending", value |-> Comp("", << >>), savedAtVersion |-> 0, error |-> ""]
  /\ mObject' = Passed(mResult.value, mResult.savedAtVersion, TRUE)
  /\ UNCHANGED <<mNoDown, mConverter, mOrigin>>
  /\ UNCHANGED <<regVars, hdrVars, pageRegistry, componentRegistry, extension, rootIsPage, bare, pc, result,
                 hydVars,
                 errVars, fetchVars, ctxVars, headContent, renderVars>>

MigNext ==
  \/ MigStart
  \/ MigApply
  \/ MigFinish
  \/ MigBack

MigSpec == MigInit /\ [][MigNext]_vars

\* the state at the call of renderPage
Init ==
  /\ pageRegistry \in SUBSET PageKeys
  /\ componentRegistry \in SUBSET ComponentKeys
  /\ extension \in Extensions
  /\ rootIsPage = TRUE
  /\ bare = {}
  /\ RenderIdle
  /\ MigIdle
  /\ RegIdle
  /\ HdrIdle

Spec == Init /\ [][Next]_vars

\* a render in which whatever can run does run: the synchronous stretches of
\* renderPage are run by the event loop, and every fetch and every setContext
\* that was invoked settles; the pages are those in which some nodes have no
\* template code, so that some nodes are never called
FairInit ==
  /\ pageRegistry \in SUBSET PageKeys
  /\ componentRegistry \in {{"panel", "text"}, {"text"}, {}}
  /\ extension \in {"html", "rss"}
  /\ rootIsPage = TRUE
  /\ bare = {}
  /\ RenderIdle
  /\ MigIdle
  /\ RegIdle
  /\ HdrIdle

FairSpec == FairInit /\ [][Next]_vars /\ WF_vars(Next)

\* hydration on its own, also with a class registered for the page's key that
\* passes the page's data to the Component constructor without extending Page
HydrateInit ==
  /\ pageRegistry \in SUBSET PageKeys
  /\ componentRegistry \in SUBSET ComponentKeys
  /\ extension \in Extensions
  /\ rootIsPage \in BOOLEAN
  /\ bare = {}
  /\ RenderIdle
  /\ MigIdle
  /\ RegIdle
  /\ HdrIdle

HydrateNext ==
  \/ hydratePage
  \/ Construct

HydrateSpec == HydrateInit /\ [][HydrateNext]_vars

\* the nodes of the serialized tree that hold no child
Leaves == {n \in Nodes : SerAreas(n) = << >>}

\* pages whose nodes may come without an areas property: a page that has
\* none itself, and pages with one or two children that have none
BareShapes ==
  { BareComp("home"),
    Comp("home", <<Area("main", <<BareComp("text")>>)>>),
    Comp("home", <<Area("main", <<Comp("text", << >>), BareComp("panel")>>)>>) }

\* hydration and migratePage of pages in which some nodes have no areas
\* property: either a page is rendered, or a page is migrated where no page
\* template is registered for rendering
BareInit ==
  /\ componentRegistry = ComponentKeys
  /\ extension = "html"
  /\ rootIsPage = TRUE
  /\ RenderIdle
  /\ RegIdle
  /\ HdrIdle
  /\ mNoDown = {}
  /\ mConverter = 0
  /\ sortedMigrations = << >>
  /\ mIdx = 0
  /\ mCalls = << >>
  /\ mResult = [status |-> "pending", value |-> Comp("", << >>), savedAtVersion |-> 0, error |-> ""]
  /\ mRound = 1
  /\ \/ /\ pageRegistry = PageKeys
        /\ bare \in SUBSET Leaves
        /\ mpc = "idle"
        /\ mInput = Comp("home", << >>)
        /\ mFrom = 0
        /\ mTo = 0
     \/ /\ pageRegistry = {}
        /\ bare = {}
        /\ mpc = "start"
        /\ mFrom \in Versions
        /\ mInput \in {SavedAt(shape, mFrom) : shape \in PageShapes \cup BareShapes}
        /\ mTo \in Versions
  /\ mPage = mInput
  /\ mOrigin = mInput
  /\ mObject = Passed(mInput, mFrom, TRUE)

BareNext ==
  \/ hydratePage
  \/ Construct
  \/ MigStart
  \/ MigApply
  \/ MigFinish

BareSpec == BareInit /\ [][BareNext]_vars

\* the registry on its own: any sequence of addTemplate / addProvider calls
RegInit ==
  /\ pageRegistry = PageKeys
  /\ componentRegistry = ComponentKeys
  /\ extension = "html"
  /\ rootIsPage = TRUE
  /\ bare = {}
  /\ RenderIdle
  /\ MigIdle
  /\ RegIdle
  /\ HdrIdle

RegSpec == RegInit /\ [][RegNext]_vars

\* the state at a call of printHeader(ctx, content, attributes)
HdrInit ==
  /\ pageRegistry = PageKeys
  /\ componentRegistry = ComponentKeys
  /\ extension = "html"
  /\ rootIsPage = TRUE
  /\ bare = {}
  /\ RenderIdle
  /\ MigIdle
  /\ RegIdle
  /\ hdrPc = "called"
  /\ hdrLevel \in HeaderLevels
  /\ hdrContent \in Contents
  /\ hdrAttrs \in AttributeSets
  /\ hdrOut = EmptyString
  /\ hdrCtx = hdrLevel
  /\ hdrRet = NoRef

\* printHeader returns
printHeaderReturn ==
  /\ hdrPc = "called"
  /\ hdrOut' = printHeader(hdrLevel, hdrContent, hdrAttrs)
  /\ hdrPc' = "returned"
  /\ UNCHANGED <<hdrLevel, hdrContent, hdrAttrs, hdrCtx, hdrRet>>
  /\ UNCHANGED <<regVars, migVars>>
  /\ UNCHANGED <<pageRegistry, componentRegistry, extension, rootIsPage, bare, pc, result,
                 hydVars,
                 errVars, fetchVars, ctxVars, headContent, renderVars>>

\* advanceHeader returns: a child's setContext called it on the renderCtx
\* it received from its parent
advanceHeaderReturn ==
  /\ hdrPc = "called"
  /\ \E r \in {advanceHeader(hdrLevel, hdrContent)} :
       /\ hdrCtx' = r.ctx
       /\ hdrRet' = r.ret
  /\ hdrPc' = "advanced"
  /\ UNCHANGED <<hdrLevel, hdrContent, hdrAttrs, hdrOut>>
  /\ UNCHANGED <<regVars, migVars>>
  /\ UNCHANGED <<pageRegistry, componentRegistry, extension, rootIsPage, bare, pc, result,
                 hydVars,
                 errVars, fetchVars, ctxVars, headContent, renderVars>>

HdrNext ==
  \/ printHeaderReturn
  \/ advanceHeaderReturn

HdrSpec == HdrInit /\ [][HdrNext]_vars

\* ------------------------------------------------------------------------
\* Properties
\* ------------------------------------------------------------------------

\* the html render of a page whose root template is registered
HtmlRender == TemplateKeyOf(Root) \in pageRegistry /\ extension = "html"

HydrationDone == pc \notin {"start", "hydrating"} /\ TemplateKeyOf(Root) \in pageRegistry

\* the node's setContext / render / fetch has been invoked
CtxInvoked(n) == ctxState[n] # "idle"

RenderInvoked(n) == rState[n] \in {"returned", "threw"}

FetchSettled(n) == fetchState[n] \in {"ok", "failed"}

\* C1: with the root template registered, renderPage for the html extension
\* never rejects, whichever fetch, setContext or render throws, the root's
\* included. (The code lets a throw of the page's own setContext out.)
C1_NeverRejects == (HtmlRender /\ pc = "done") => result.status = "resolved"

\* C2: once a node's hadError is true (the root included), no step invokes
\* setContext or render on it, and what its renderFn returns is the empty
\* string. (The code calls the page's setContext without looking at hadError.)
C2_NoCallAfterError ==
  [][\A n \in Nodes :
       hadError[n] =>
         /\ ~(~CtxInvoked(n) /\ ctxState'[n] = "pending")
         /\ ~(rState[n] = "idle" /\ rState'[n] \in {"returned", "threw"})
         /\ (rState'[n] # "idle" => out'[n] = << >>)]_vars

\* C3: the argument of every non-root setContext call is the renderCtx its
\* parent's setContext resolved to, never undefined. (The code calls the
\* children of a node with a captured error with that node's undefined
\* renderCtx.)
C3_CtxFromParent ==
  \A n \in Nodes \ {Root} :
    CtxInvoked(n) =>
      /\ ctxArg[n].def
      /\ ctxState[parent[n]] = "done"
      /\ ctxArg[n] = renderCtx[parent[n]]

\* C4: no setContext is invoked, the page's included, until the fetch of every
\* node of the tree has settled: its value stored in fetched, or its error
\* captured.
C4_FetchBarrier ==
  (\E n \in Nodes : CtxInvoked(n)) =>
    \A m \in Live :
      /\ FetchSettled(m)
      /\ fetchState[m] = "ok" => fetched[m] = FetchValue(m)
      /\ fetchState[m] = "failed" =>
           /\ hadError[m]
           /\ BagIn([at |-> m, err |-> Err("fetch", m)], captured)

\* C4 witness: a setContext call is pending below the page while the tree
\* holds a stored fetch and a captured fetch error
C4_Witness ==
  /\ \E n \in Nodes \ {Root} : ctxState[n] = "pending"
  /\ \E m \in Nodes : fetchState[m] = "failed"
  /\ \E m \in Nodes \ {Root} : fetchState[m] = "ok"

\* the hydrated nodes at and below x
Subtree(x) == {m \in Nodes : m = x \/ x \in Ancestors(m)}

\* neither the node nor one of its ancestors failed in fetch or setContext
CleanChain(y) ==
  \A z \in {y} \cup Ancestors(y) : fetchState[z] = "ok" /\ ctxState[z] # "failed"

\* renderPage took the html path and returned
HtmlReturned ==
  /\ TemplateKeyOf(Root) \in pageRegistry
  /\ extension \in {"", "html"}
  /\ pc = "done"
  /\ result.status = "resolved"

\* C5: a node whose fetch throws keeps fetched undefined and gets hadError;
\* the fetch of every other node is still invoked, its value stored and its
\* hadError left false; and the failure of x keeps no node outside x's subtree
\* from setContext (invoked for every node whose own fetch resolved) or from
\* render (invoked for every node whose own chain up to the page is free of
\* fetch and setContext errors).
C5_FetchIsolation ==
  LET live == Live
  IN /\ \A x \in live : fetchState[x] = "failed" => fetched[x] = Undefined /\ hadError[x]
     /\ pc = "fetching" => \A y \in live : fetchState[y] # "failed" => ~hadError[y]
     /\ HydrationDone /\ pc # "fetching" =>
          \A y \in live :
            FetchSettled(y) /\ (fetchState[y] = "ok" => fetched[y] = FetchValue(y))
     /\ HtmlReturned =>
          \A x \in live : fetchState[x] = "failed" =>
            \A y \in live \ Subtree(x) :
              /\ fetchState[y] = "ok" => ctxState[y] \in {"done", "failed"}
              /\ CleanChain(y) => RenderInvoked(y)

\* C5 witness: the fetch of a non-root node failed; a sibling of it went
\* through fetch, setContext and render, and the page rendered
C5_Witness ==
  /\ HtmlReturned
  /\ \E x \in Nodes \ {Root} :
       /\ fetchState[x] = "failed"
       /\ \E y \in Nodes \ {x} :
            /\ parent[y] = parent[x]
            /\ fetched[y] = FetchValue(y)
            /\ ctxState[y] = "done"
            /\ rState[y] = "returned"
  /\ rState[Root] = "returned"

\* C6: render is invoked on a node only after renderFn has returned for every
\* child, and the map it receives holds, for each area in order, one output
\* per hydrated child in area order: the child's output, or the empty string
\* for a child that was blanked.
C6_ChildrenFirst ==
  (TemplateKeyOf(Root) \in pageRegistry /\ extension \in {"", "html"}) =>
    \A n \in Nodes : RenderInvoked(n) =>
      /\ Len(rArg[n]) = Len(areas[n])
      /\ \A k \in 1..Len(areas[n]) :
           /\ rArg[n][k].name = areas[n][k].name
           /\ Len(rArg[n][k].val) = Len(areas[n][k].list)
           /\ \A i \in 1..Len(areas[n][k].list) :
                LET c == areas[n][k].list[i]
                IN /\ rState[c] # "idle"
                   /\ rState[c] = "returned" =>
                        rArg[n][k].val[i] = out[c] /\ out[c] # << >>
                   /\ rState[c] \in {"blanked", "threw"} => rArg[n][k].val[i] = << >>

\* C6 witness: the page's render received an area that holds a blank slot
\* followed by the output of a later child
C6_Witness ==
  /\ HtmlReturned
  /\ rState[Root] = "returned"
  /\ \E k \in 1..Len(rArg[Root]) : \E i, j \in 1..Len(rArg[Root][k].val) :
       /\ i < j
       /\ rArg[Root][k].val[i] = << >>
       /\ rArg[Root][k].val[j] # << >>

RECURSIVE RenderedWithBlank(_, _)
\* the render output of the subtree of m when only node b is blanked
RenderedWithBlank(m, b) ==
  LET list == Children(m)
  IN IF m = b THEN << >>
     ELSE <<m>> \o Concat([i \in 1..Len(list) |-> RenderedWithBlank(list[i], b)])

\* C7: a node whose render throws gets hadError and contributes the empty
\* string; the render of each of its ancestors is still invoked; and when it
\* is the only node with an error, the page result is the page's render
\* output with just that node's slot blank.
C7_RenderThrowContained ==
  (TemplateKeyOf(Root) \in pageRegistry /\ extension \in {"", "html"}) =>
    \A n \in Nodes : rState[n] = "threw" =>
      /\ hadError[n]
      /\ out[n] = << >>
      /\ pc = "done" =>
           /\ result.status = "resolved"
           /\ \A a \in Ancestors(n) : RenderInvoked(a)
           /\ {m \in Nodes : hadError[m]} = {n} =>
                result.value = RenderedWithBlank(Root, n)

\* C7 witness: a node two levels below the page threw in render, nothing else
\* failed, and renderPage returned
C7_Witness ==
  /\ HtmlReturned
  /\ \E n \in Nodes :
       /\ rState[n] = "threw"
       /\ Cardinality(Ancestors(n)) = 2
       /\ {m \in Nodes : hadError[m]} = {n}
       /\ result.value # << >>

\* the errors thrown by the template code of a node
RenderKinds == {"fetch", "setContext", "render", "renderVariation"}

\* C8: every error captured from a node's fetch, setContext, render or
\* renderVariation (the page's own included) is written exactly once at the
\* page's passError, with the path of the node it came from, and nothing is
\* written twice. (The code drops the errors of the page itself: logError
\* starts at this.parent, which the page does not have.)
C8_ReportedOnce ==
  /\ \A c \in BagToSet(captured) :
       c.err.kind \in RenderKinds =>
         /\ CopiesIn(c, captured) = 1
         /\ \E l \in BagToSet(sink) : l.err = c.err
         /\ \A l \in BagToSet(sink) :
              l.err = c.err => CopiesIn(l, sink) = 1 /\ l.path = path[c.at]
  /\ \A l \in BagToSet(sink) :
       /\ CopiesIn(l, sink) = 1
       /\ \E c \in BagToSet(captured) : c.err = l.err

\* renderPage was called for a registered page with an extension like rss
VariationRender ==
  /\ TemplateKeyOf(Root) \in pageRegistry
  /\ extension # ""
  /\ extension # "html"

\* C9: for a non-empty extension other than html no setContext and no render
\* is ever invoked and headContent is never assigned; renderVariation runs
\* only after every fetch has settled, on the children of a node before the
\* node, with the children's outputs joined per area; the result is the
\* page's renderVariation output.
C9_VariationPath ==
  VariationRender =>
    /\ \A n \in Nodes : ~CtxInvoked(n) /\ renderCtx[n] = UndefinedCtx
    /\ pc \notin {"rootctx", "context", "rendering"}
    /\ \A c \in BagToSet(captured) : c.err.kind \notin {"setContext", "render"}
    /\ headContent = <<"undefined">>
    /\ (\E n \in Nodes : rState[n] # "idle") => \A m \in Live : FetchSettled(m)
    /\ \A n \in Nodes : RenderInvoked(n) =>
         /\ Len(rArg[n]) = Len(areas[n])
         /\ \A k \in 1..Len(areas[n]) :
              /\ rArg[n][k].name = areas[n][k].name
              /\ \A i \in 1..Len(areas[n][k].list) : rState[areas[n][k].list[i]] # "idle"
              /\ rArg[n][k].val =
                   Concat([i \in 1..Len(areas[n][k].list) |-> out[areas[n][k].list[i]]])
         /\ rState[n] = "returned" => out[n] = RenderVariationValue(n, rArg[n])
    /\ pc = "done" =>
         /\ rState[Root] # "idle"
         /\ result = [status |-> "resolved", value |-> out[Root], error |-> ""]

\* C9 witness: an rss render returned items of the tree, one node blanked
C9_Witness ==
  /\ VariationRender
  /\ pc = "done"
  /\ rState[Root] = "returned"
  /\ Len(result.value) >= 2
  /\ \E n \in Nodes : rState[n] = "blanked"

\* position of a member in a list
PosIn(list, c) == CHOOSE i \in 1..Len(list) : list[i] = c

\* the serialized nodes whose template, and that of every node above them up
\* to the page, is registered
RECURSIVE SerChain(_)
SerChain(n) == IF n = Root THEN {} ELSE {n} \cup SerChain(SerParent(n))

Hydratable == {n \in Nodes : \A z \in SerChain(n) : Registered(z)}

\* C10: hydrating an area with a child whose templateKey is not registered
\* does not throw; every hydrated area holds exactly the children with a
\* registered template, in their serialized relative order, and each of them
\* is hydrated with its own subtree.
C10_MissingChildOmitted ==
  /\ result.error # HydrationFailed
  /\ HydrationDone =>
       LET live == Live
       IN \A n \in live :
            /\ live = Hydratable
            /\ n \in constructed
            /\ Len(areas[n]) = Len(SerAreas(n))
            /\ \A k \in 1..Len(areas[n]) :
                 LET got == areas[n][k].list
                     ser == SerAreas(n)[k].list
                 IN /\ areas[n][k].name = SerAreas(n)[k].name
                    /\ Members(got) = {c \in Members(ser) : Registered(c)}
                    /\ \A i, j \in 1..Len(got) :
                         i < j => PosIn(ser, got[i]) < PosIn(ser, got[j])
                    /\ \A c \in Members(got) : parent[c] = n /\ path[c] # UndefinedPath

\* C10 witness: the middle child of the page's main area has no template; its
\* two siblings are hydrated in order, the first with its own child
C10_Witness ==
  /\ HydrationDone
  /\ ~Registered(3)
  /\ areas[Root][1].list = <<2, 4>>
  /\ Children(2) # << >>

\* C11: for every child that hydration omits for want of a template, at any
\* depth, exactly one line is written at the page's sink, and it carries the
\* path where the missing child sits (the path of the child, or of the area's
\* owner). (The code drops the error of a direct child of the page, the page
\* having no parent to pass it to, and logs deeper ones with the path field of
\* an owner whose constructor has not assigned it yet.)
C11_MissingChildReported ==
  HydrationDone =>
    \A c \in Nodes \ {Root} :
      (SerParent(c) \in Hydratable /\ ~Registered(c)) =>
        /\ \E l \in BagToSet(sink) : l.err = Err("missing template", c)
        /\ \A l \in BagToSet(sink) :
             l.err = Err("missing template", c) =>
               /\ CopiesIn(l, sink) = 1
               /\ l.path \in {PathOf(c), PathOf(SerParent(c))}

\* C12: renderPage ends with the 'Missing template implementation' error
\* exactly when the root record's templateKey has no page implementation;
\* then no node is hydrated and no fetch, setContext or render is invoked.
C12_MissingRootTemplate ==
  /\ result.error = MissingTemplate <=>
       (pc # "start" /\ TemplateKeyOf(Root) \notin pageRegistry)
  /\ TemplateKeyOf(Root) \notin pageRegistry =>
       /\ pc \in {"start", "done"}
       /\ pc = "done" => result.status = "rejected"
       /\ constructed = {}
       /\ hydIdx = 0
       /\ \A n \in Nodes :
            /\ fetchState[n] = "idle"
            /\ ctxState[n] = "idle"
            /\ rState[n] = "idle"

\* C12 witness: renderPage was rejected for a page without implementation
\* although every component template of the tree is registered
C12_Witness ==
  /\ pc = "done"
  /\ result.status = "rejected"
  /\ result.error = MissingTemplate
  /\ componentRegistry = ComponentKeys

\* C13: within one render invocation, hydration included, a hadError that is
\* true is never set back to false. (The constructor assigns hadError = false
\* after the loop in which it may have called logError for a missing child.)
C13_HadErrorSticky ==
  [][\A n \in Nodes : hadError[n] => hadError'[n]]_vars

\* --- properties of migratePage ---

MigDone == mpc = "done"

MigResolved == MigDone /\ mResult.status = "resolved"

\* the templateKeys of a record and of everything it holds
RECURSIVE KeysIn(_)
KeysIn(component) ==
  {component.templateKey} \cup
  UNION {UNION {KeysIn(component.areas[i].list[j]) : j \in DOMAIN component.areas[i].list} :
         i \in DOMAIN component.areas}

\* the registered migrations, each with the key of its template
AllMigrations ==
  LET all == RegistryAll(mNoDown, mConverter)
  IN UNION {{[id |-> all[t].migrations[k].id,
              createdAt |-> all[t].migrations[k].createdAt,
              down |-> all[t].migrations[k].down,
              templateKey |-> all[t].templateKey] : k \in DOMAIN all[t].migrations} :
            t \in DOMAIN all}

StrictlyBetween(at) ==
  \/ mFrom < at /\ at < mTo
  \/ mTo < at /\ at < mFrom

\* the migrations the call is to apply: key in use in the page passed in,
\* createdAt strictly between the two versions
Due == {m \in AllMigrations : m.templateKey \in KeysIn(mInput) /\ StrictlyBetween(m.createdAt)}

\* the tree with the up of a migration applied to every matching node,
\* children before the node that holds them
RECURSIVE UpEverywhere(_, _)
UpEverywhere(component, m) ==
  LET as == component.areas
      inner == [component EXCEPT !.areas =
                  [i \in DOMAIN as |->
                     Area(as[i].name, [j \in DOMAIN as[i].list |-> UpEverywhere(as[i].list[j], m)])]]
  IN IF component.templateKey = m.templateKey
     THEN [inner EXCEPT !.fields = @ \cup {m.id}]
     ELSE inner

\* the migration of the template "text"
TextMigration == CHOOSE m \in AllMigrations : m.templateKey = "text"

HasChildren(component) == \E i \in DOMAIN component.areas : component.areas[i].list # << >>

\* C14: forward migration of a page whose areas hold "text" nodes, across the
\* one migration of "text" and no other: migratePage resolves to the tree in
\* which every "text" node is replaced, in place, by the result of up.
\* (processMigration throws for every node that has an area key.)
C14_ForwardWithChildren ==
  (/\ MigDone
   /\ HasChildren(mInput)
   /\ "text" \in KeysIn(mInput)
   /\ Due = {TextMigration}
   /\ mFrom < mTo) =>
     /\ mResult.status = "resolved"
     /\ mResult.value = UpEverywhere(mInput, TextMigration)

\* C15: a backward migration whose window holds a migration of an in-use
\* template without down is rejected; no tree is returned.
\* (Nothing tests for the missing down: the call is rejected only if the
\* undefined function gets called, and it is not when an earlier down has
\* changed the node's templateKey.)
C15_DownlessRejected ==
  (/\ MigDone
   /\ mFrom > mTo
   /\ \E m \in Due : m.down = "undefined") =>
     mResult.status = "rejected"

\* C16: migratePage applies exactly the migrations of the template keys in
\* use whose createdAt lies strictly between the two versions (each function
\* present, no node changing its template on the way); none at a bound.
\* (For a page with an area key nothing is applied: see C14.)
C16_AppliesExactlyDue ==
  /\ \A i \in DOMAIN mCalls : StrictlyBetween(mCalls[i].createdAt)
  /\ (/\ MigDone
      /\ mConverter = 0
      /\ \A m \in Due : mFrom > mTo => m.down # "undefined") =>
        {mCalls[i].id : i \in DOMAIN mCalls} = {m.id : m \in Due}

\* does a migration created at a come before one created at b, in the
\* direction of the call
ComesBefore(a, b) == IF mFrom > mTo THEN a > b ELSE a < b

\* C17: the migrations are applied one at a time in createdAt order, ascending
\* when forward and descending when backward: the list migratePage walks is in
\* that order, every call made so far belongs to a migration the loop has
\* reached, and no call of a later migration precedes one of an earlier.
C17_OneAtATimeInOrder ==
  /\ \A i, j \in DOMAIN sortedMigrations :
       i < j => ComesBefore(sortedMigrations[i].createdAt, sortedMigrations[j].createdAt)
  /\ \A i \in DOMAIN mCalls :
       \E k \in DOMAIN sortedMigrations :
         /\ sortedMigrations[k].id = mCalls[i].id
         /\ k < mIdx \/ (k = mIdx /\ mResult.status = "rejected")
  /\ \A i, j \in DOMAIN mCalls :
       i < j => ~ComesBefore(mCalls[j].createdAt, mCalls[i].createdAt)

\* C17 witness: a backward call that resolved after applying two migrations
C17_Witness ==
  /\ MigResolved
  /\ mFrom > mTo
  /\ Len(mCalls) >= 2

\* a record and every record it holds, at any depth
RECURSIVE NodesIn(_)
NodesIn(component) ==
  {component} \cup
  UNION {UNION {NodesIn(component.areas[i].list[j]) : j \in DOMAIN component.areas[i].list} :
         i \in DOMAIN component.areas}

\* has the function of the migration with this id been applied to the node
Processed(node, id) == IF mFrom > mTo THEN id \notin node.fields ELSE id \in node.fields

\* C18: within the application of one migration, up/down is invoked on a
\* matching node after all its descendants have been processed, and the node
\* it receives holds the processed children: a matching node that holds
\* children does get the call, and no node a call receives holds a matching
\* descendant that is still unprocessed.
\* (A node that has an area key is never handed to up/down: see C14.)
C18_BottomUp ==
  /\ \A i \in DOMAIN mCalls :
       \A d \in NodesIn(mCalls[i].node) \ {mCalls[i].node} :
         d.templateKey = mCalls[i].node.templateKey => Processed(d, mCalls[i].id)
  /\ (/\ MigDone
      /\ mConverter = 0
      /\ \A m \in Due : mFrom > mTo => m.down # "undefined") =>
        \A m \in Due :
          \A node \in NodesIn(mInput) :
            (node.templateKey = m.templateKey /\ HasChildren(node)) =>
              \E i \in DOMAIN mCalls :
                /\ mCalls[i].id = m.id
                /\ HasChildren(mCalls[i].node)

\* the templateKey a migration is registered for
KeyOfMigration(id) == (CHOOSE m \in AllMigrations : m.id = id).templateKey

\* C19: migratePage never invokes the up or down of a migration registered for
\* a template key that no node of the page passed in has.
C19_UnusedKeyNeverRuns ==
  \A i \in DOMAIN mCalls : KeyOfMigration(mCalls[i].id) \in KeysIn(mInput)

\* C19 witness: a call resolved whose window holds the migration of
\* "widget-v9", on a page without any "widget-v9" node whose root was turned
\* into one on the way
C19_Witness ==
  /\ MigResolved
  /\ "widget-v9" \notin KeysIn(mInput)
  /\ \E m \in AllMigrations : m.templateKey = "widget-v9" /\ StrictlyBetween(m.createdAt)
  /\ mResult.value.templateKey = "widget-v9"
  /\ mCalls # << >>

\* C20: migratePage(page, V) on a page saved at V invokes no migration
\* function and returns the input tree with savedAtVersion V; so after any
\* call that resolved, a second call to the same version selects nothing.
C20_SameVersionNoOp ==
  /\ (MigDone /\ mFrom = mTo) =>
       /\ mCalls = << >>
       /\ mResult.status = "resolved"
       /\ mResult.value = mInput
       /\ mResult.savedAtVersion = mFrom
  /\ MigResolved =>
       Selected(RegistryAll(mNoDown, mConverter), KeysIn(mResult.value),
                mResult.savedAtVersion, mTo, mResult.savedAtVersion > mTo) = << >>

\* C20 witness: a call to the version the page was saved at has returned, for
\* a page with children where a migration of a template in use was created
\* at that very version
C20_Witness ==
  /\ MigResolved
  /\ mFrom = mTo
  /\ HasChildren(mInput)
  /\ \E m \in AllMigrations : m.templateKey \in KeysIn(mInput) /\ m.createdAt = mTo

\* C25: no descendant of a node that carries a captured error, from its fetch
\* or from its own setContext, has setContext invoked in the context phase.
\* (executeSetContext goes on to the children of a node whatever happened to
\* the node: await setContextFn(c) sits after the try / catch.)
C25_NoContextBelowError ==
  [][\A n \in Nodes \ {Root} :
       (~CtxInvoked(n) /\ ctxState'[n] = "pending") =>
         \A a \in Ancestors(n) \ {Root} : ~hadError'[a]]_vars

\* the html path has entered the render phase
RenderStarted == extension \in {"", "html"} /\ \E n \in Nodes : rState[n] # "idle"

\* C26: no node's render is invoked until every setContext call started in
\* the context phase, anywhere in the tree, has settled.
C26_ContextBarrier ==
  RenderStarted =>
    /\ \A m \in Nodes : ctxState[m] # "pending"
    /\ \A m \in Live : ctxState[m] = "idle" => \E a \in {m} \cup Ancestors(m) : hadError[a]
    /\ \A m \in Nodes : ctxState[m] = "done" => renderCtx[m] = SetContextValue(m, ctxArg[m])

\* C26 witness: a render has been invoked while the tree holds a setContext
\* that resolved two levels below the page and one that threw
C26_Witness ==
  /\ RenderStarted
  /\ \E n \in Nodes : RenderInvoked(n)
  /\ \E m \in Nodes : parent[m] \notin {NoNode, Root} /\ ctxState[m] = "done"
  /\ \E m \in Nodes : ctxState[m] = "failed"

\* C27: in the variation path a node whose hadError is true is not asked to
\* renderVariation and contributes the empty string; a node whose
\* renderVariation throws gets hadError and contributes the empty string, and
\* the renderVariation of each of its ancestors is invoked all the same.
C27_VariationErrors ==
  [][VariationRender =>
       \A n \in Nodes :
         /\ (hadError[n] /\ rState[n] = "idle" /\ rState'[n] # "idle") =>
              rState'[n] = "blanked" /\ out'[n] = << >>
         /\ rState'[n] = "threw" => hadError'[n] /\ out'[n] = << >>
         /\ (rState'[n] = "threw" /\ pc' = "done") =>
              \A a \in Ancestors(n) : RenderInvoked(a)']_vars

\* C27 witness: the variation was returned; the renderVariation of a node two
\* levels down threw, that of its parent returned, and a node whose fetch had
\* failed was left out
C27_Witness ==
  /\ VariationRender
  /\ pc = "done"
  /\ result.status = "resolved"
  /\ \E n \in Nodes :
       /\ rState[n] = "threw"
       /\ parent[n] \notin {NoNode, Root}
       /\ rState[parent[n]] = "returned"
  /\ \E m \in Nodes : fetchState[m] = "failed" /\ rState[m] = "blanked"

\* the hydration of the page has run to its end
HydrationComplete == pc = "hydrating" /\ hydIdx = Len(ConstructEvents(Root))

\* the node reached by following the parent links to the top
RECURSIVE Top(_)
Top(n) == IF parent[n] = NoNode THEN n ELSE Top(parent[n])

\* C28: after hydration every node's page field is the one root Page, the node
\* the parent links lead to; the parent of a non-root node is the node whose
\* area list holds it, the root has none; and when the top of the parent
\* chain is not a Page the construction throws 'Hydration failed'.
C28_PageAndParent ==
  /\ \A n \in Nodes :
       page[n] # NoNode => rootIsPage /\ page[n] = Root /\ Top(n) = Root
  /\ \A n \in constructed :
       IF n = Root THEN parent[n] = NoNode ELSE parent[n] = SerParent(n)
  /\ \A n \in Nodes : \A c \in ChildSet(n) : parent[c] = n
  /\ HydrationComplete =>
       /\ rootIsPage
       /\ \A n \in Live : page[n] = Root /\ (n # Root => n \in ChildSet(parent[n]))
  /\ rootIsPage => result.error # HydrationFailed
  /\ (~rootIsPage /\ pc = "done" /\ TemplateKeyOf(Root) \in pageRegistry) =>
       /\ result.status = "rejected"
       /\ result.error = HydrationFailed
       /\ \A n \in Nodes : page[n] = NoNode

\* C28 witness: hydration is complete and a node two levels below the page
\* carries the page
C28_Witness ==
  /\ HydrationComplete
  /\ \E n \in Nodes : parent[n] \notin {NoNode, Root} /\ page[n] = Root

\* the index of a node in the serialized list of its area, as a string
SerPosition(n) ==
  LET ser == SerList(SerParent(n), SerAreaOf(n))
  IN <<"0", "1", "2">>[CHOOSE i \in 1..Len(ser) : ser[i] = n]

\* the name of the hydrated area of the node's parent that holds the node
HydratedAreaOf(n) ==
  LET as == areas[parent[n]]
  IN as[CHOOSE k \in 1..Len(as) : n \in Members(as[k].list)].name

\* C29: the path of every hydrated non-root node is its parent's path followed
\* by '/<areaName>/<i>', i being the node's index in the serialized area list,
\* not renumbered when an earlier sibling is omitted; the paths of the nodes
\* of one tree are pairwise distinct.
C29_Paths ==
  HydrationDone =>
    LET live == Live
    IN /\ path[Root] = <<"/">>
       /\ \A n \in live \ {Root} :
            path[n] = path[parent[n]] \o <<"/", HydratedAreaOf(n), "/", SerPosition(n)>>
       /\ \A n, m \in live : n # m => path[n] # path[m]

\* C29 witness: the first child of the page's main area was omitted and the
\* third one is hydrated with the index 2 in its path
C29_Witness ==
  /\ HydrationDone
  /\ ~Registered(2)
  /\ 4 \in Live
  /\ path[4] = <<"/", "/", "main", "/", "2">>

C22_DirectionAndVersion ==
  /\ \A i \in DOMAIN mCalls : mCalls[i].fn = IF mFrom > mTo THEN "down" ELSE "up"
  /\ MigResolved =>
       /\ mResult.savedAtVersion = mTo
       /\ (mConverter = 0 /\ Due # {}) => mCalls # << >>

\* C22 witness: a backward call resolved after a down turned the root into a
\* node of another template
C22_Witness ==
  /\ MigResolved
  /\ mFrom > mTo
  /\ mResult.value.templateKey # mInput.templateKey
  /\ mResult.savedAtVersion = mTo
  /\ \E i \in DOMAIN mCalls : mCalls[i].fn = "down"

\* a node before and after the application of a migration: when its key is
\* not the migration's, key, fields, area names and the number of children
\* per area are the same, and so down the tree
RECURSIVE Framed(_, _, _)
Framed(before, after, key) ==
  before.templateKey # key =>
    /\ after.templateKey = before.templateKey
    /\ after.fields = before.fields
    /\ Len(after.areas) = Len(before.areas)
    /\ \A i \in DOMAIN before.areas :
         /\ after.areas[i].name = before.areas[i].name
         /\ Len(after.areas[i].list) = Len(before.areas[i].list)
         /\ \A j \in DOMAIN before.areas[i].list :
              Framed(before.areas[i].list[j], after.areas[i].list[j], key)

SeenUnder(kind, name) == {e.block : e \in {x \in regSeen : x.kind = kind /\ x.name = name}}

\* the block the registry holds under a name
Held(kind, name) == IF kind = "css" THEN cssblocks[name] ELSE jsblocks[name]

BlockKeys == {<<"css", n>> : n \in CssNames} \cup {<<"js", n>> : n \in JsNames}

\* the held block is one of the registered ones, none of them has a higher
\* version, and an unversioned block is held only while no versioned one came
HoldsHighest(kind, name) ==
  LET seen == SeenUnder(kind, name)
      held == Held(kind, name)
  IN IF seen = {} THEN held = NoBlock
     ELSE /\ held \in seen
          /\ \A b \in seen :
               /\ b.version # NoVersion => held.version # NoVersion
               /\ (b.version # NoVersion /\ held.version # NoVersion)
                    => ~semverGt(b.version, held.version)

\* a call that changes the block held under a name that had one puts a
\* versioned block there
NeverReplacedByUnversioned(kind, name) ==
  LET before == Held(kind, name)
      after == IF kind = "css" THEN cssblocks'[name] ELSE jsblocks'[name]
  IN (before # NoBlock /\ after # before) => after.version # NoVersion

\* C23: after any sequence of addTemplate / addProvider calls the registry
\* holds, for every css or js block name, the block with the highest version
\* of those registered under the name; an unversioned block never replaces an
\* existing block, and a versioned block replaces an unversioned one
C23_HighestVersion ==
  /\ [](\A k \in BlockKeys : HoldsHighest(k[1], k[2]))
  /\ [][\A k \in BlockKeys : NeverReplacedByUnversioned(k[1], k[2])]_vars

\* a name under which an unversioned block and two versions that differ only
\* as numbers (1.10.0 after 1.2.0) were registered, the higher one being held
C23_Witness ==
  /\ regCalls = MaxCalls
  /\ \E t \in BlockTexts :
       /\ Block(NoVersion, t) \in SeenUnder("css", "fonts")
       /\ Block(<<1, 2, 0>>, "text") \in SeenUnder("css", "fonts")
  /\ \E t \in BlockTexts : Block(<<1, 10, 0>>, t) \in SeenUnder("css", "fonts")
  /\ cssblocks["fonts"].version = <<1, 10, 0>>

\* the level printHeader is to use: ctx.headerLevel brought into 1..6
Clamped(n) == IF n < 1 THEN 1 ELSE IF n > 6 THEN 6 ELSE n

\* C24: printHeader returns the empty string for blank content; otherwise it
\* returns a header element around the content whose level is ctx.headerLevel
\* clamped to 1..6, the closing tag having the level of the opening tag
C24_HeaderLevel ==
  hdrPc = "returned" =>
    IF isBlank(hdrContent) THEN hdrOut = EmptyString
    ELSE /\ ~hdrOut.empty
         /\ hdrOut.open \in 1..6
         /\ hdrLevel.def => hdrOut.open = Clamped(hdrLevel.n)
         /\ hdrOut.close = hdrOut.open
         /\ hdrOut.content = hdrContent.chars

\* a header asked for above level 6, with attributes, printed as h6
C24_Witness ==
  /\ hdrPc = "returned"
  /\ hdrLevel.def
  /\ hdrLevel.n > 6
  /\ ~isBlank(hdrContent)
  /\ isNotEmpty(hdrAttrs)
  /\ hdrOut.open = 6
  /\ hdrOut.close = 6

\* C31: a serialized node without an areas property is a node without
\* children: neither hydration nor migratePage throws on it, hydration gives
\* the node an empty map of areas and migratePage goes on to its loop
C31_NoAreasNoChildren ==
  /\ result.error # NoObject
  /\ mResult.error # NoObject
  /\ \A n \in bare : (n \in constructed /\ pc = "done") => path[n] = PathOf(n)
  /\ (HasBare(mInput) /\ mpc = "done") => mResult.status = "resolved"

\* pageComponent.headContent has been assigned
HeadAssigned == headContent # <<"undefined">>

\* the references declared by the nodes of the hydrated tree
DeclaredReferences ==
  LET live == Live
  IN {<<"script src", u>> : u \in UNION {Members(jsUrls(n)) : n \in live}}
     \cup {<<"link href", u>> : u \in UNION {Members(cssUrls(n)) : n \in live}}
     \cup {<<"script /.resources js", TemplateKeyOf(n)>> :
             n \in {m \in live : HasJavascript(TemplateKeyOf(m))}}
     \cup {<<"link /.resources css", TemplateKeyOf(n)>> :
             n \in {m \in live : HasCss(TemplateKeyOf(m))}}

\* C32: in an html render headContent is assigned when every setContext call
\* of the context phase has settled and before any render is invoked (the
\* root's included), and it lists every script or stylesheet reference that
\* the nodes of the tree declare exactly once
C32_HeadContent ==
  /\ HeadAssigned =>
       /\ extension \in {"", "html"}
       /\ ctxState[Root] = "done"
       /\ \A n \in Nodes : ctxState[n] # "pending"
       /\ \A i, j \in DOMAIN headContent : headContent[i] = headContent[j] => i = j
       /\ Members(headContent) = DeclaredReferences
  /\ (extension \in {"", "html"} /\ \E n \in Nodes : rState[n] # "idle") => HeadAssigned

\* an html render in which two nodes of the same template declare the same
\* references, the head content is assigned and a render has been invoked
C32_Witness ==
  /\ HeadAssigned
  /\ RenderInvoked(Root)
  /\ \E n, m \in Live : n # m /\ TemplateKeyOf(n) = "text" /\ TemplateKeyOf(m) = "text"
  /\ Len(headContent) >= 4

\* the template class that was registered under a key
TemplateOf(key) == CHOOSE t \in Templates : t.templateKey = key

\* C33: after addTemplate(T) a template class that extends Page is found by
\* the page lookup under its templateKey, and a template class that does not
\* extend Page is found by the component lookup under its templateKey
C33_LookupByKind ==
  \A i \in DOMAIN regAll :
    IF TemplateOf(regAll[i]).extendsPage
    THEN regAll[i] \in regPages
    ELSE regAll[i] \in regComponents

\* the setContext of the node has settled
CtxSettled(n) == ctxState[n] \in {"done", "failed"}

\* C34: in the context phase a setContext call that has not settled in one
\* subtree does not delay the other subtrees: once the setContext of a node's
\* parent has settled, the setContext of the node (if it has no captured
\* error) has been invoked, whatever is still pending outside its chain of
\* ancestors
C34_SiblingsIndependent ==
  pc = "context" =>
    \A n \in Live \ {Root} :
      (CtxSettled(parent[n]) /\ ~hadError[n]) => CtxInvoked(n)

\* a setContext two levels below the page has been invoked while the
\* setContext of a child of the page outside its chain of ancestors is pending
C34_Witness ==
  /\ pc = "context"
  /\ \E n \in Live :
       /\ parent[n] \notin {NoNode, Root}
       /\ CtxInvoked(n)
       /\ \E s \in Live : /\ parent[s] = Root
                          /\ s \notin Ancestors(n)
                          /\ ctxState[s] = "pending"

\* an error was handed to the node's logError before the render phase
CapturedBeforeRender(n) ==
  \E c \in BagToSet(captured) : c.at = n /\ c.err.kind \notin {"render", "renderVariation"}

\* C35: a node with a captured error blanks its whole subtree in the render
\* phase: render is invoked neither on it nor on any of its descendants, every
\* node outside such subtrees is rendered, and the page result is the empty
\* string when the root itself carries a captured error. (The constructor
\* clears hadError after it captured the error of a missing child, so that
\* node and its subtree are rendered.)
C35_ErrorBlanksSubtree ==
  HtmlReturned =>
    LET live == Live
        failed == {n \in live : CapturedBeforeRender(n)}
    IN /\ \A n \in failed : \A d \in Subtree(n) : ~RenderInvoked(d)
       /\ \A y \in live : (\A n \in failed : y \notin Subtree(n)) => RenderInvoked(y)
       /\ Root \in failed => result.value = << >>

\* the promise renderPage returned has settled
RenderSettled == pc = "done" /\ result.status \in {"resolved", "rejected"}

\* C36: if every fetch and every setContext call that was invoked eventually
\* settles, renderPage eventually settles, whichever of the calls fail: it
\* waits for the calls it has started and for nothing else
C36_RenderSettles == <>RenderSettled

\* a render that settled although a fetch and a setContext failed and some
\* nodes of the serialized tree never got a fetch or a setContext
C36_Witness ==
  /\ RenderSettled
  /\ result.status = "resolved"
  /\ \E n \in Nodes : fetchState[n] = "failed"
  /\ \E n \in Nodes : ctxState[n] = "failed"
  /\ \E n \in Nodes : fetchState[n] = "idle"
  /\ \E n \in Live : ctxState[n] = "idle"

FixedList ==
  sortby(Selected(RegistryAll(mNoDown, mConverter), KeysIn(mInput), mFrom, mTo, Backward),
         Backward)

\* C38: the list of migrations that migratePage runs is fixed from the tree
\* as it was passed in, before the first migration runs: it stays the same to
\* the end of the call; a key that enters the tree only as the output of an
\* earlier migration of the call contributes no migration; and a migration of
\* the list whose key the tree no longer holds runs without a call of up or
\* down
C38_ListFixedAtStart ==
  /\ [](mpc = "applying" \/ (MigDone /\ mResult.error # NoObject) =>
          /\ sortedMigrations = FixedList
          /\ \A i \in DOMAIN sortedMigrations :
               sortedMigrations[i].templateKey \in KeysIn(mInput))
  /\ [][(mpc = "applying" /\ mIdx <= Len(sortedMigrations)
           /\ sortedMigrations[mIdx].templateKey \notin KeysIn(mPage))
          => (mCalls' = mCalls /\ sortedMigrations' = sortedMigrations)]_vars

\* a call that resolved on a page whose root was turned into "widget-v9" by
\* the first migration: the migration of "widget-v9" lies in the window and
\* is not in the list, and the second migration of "home" ran without a call
C38_Witness ==
  /\ MigResolved
  /\ mInput.templateKey = "home"
  /\ mPage.templateKey = ConvertedKey
  /\ StrictlyBetween(2)
  /\ Len(sortedMigrations) = 2
  /\ Len(mCalls) = 1

\* C39: advanceHeader returns a context whose headerLevel is one more than
\* the level of the context it was given when the content is not blank, and
\* the same level when it is blank; the context object it was given holds
\* the level it held before the call
C39_AdvanceLeavesCtx ==
  hdrPc = "advanced" =>
    /\ hdrLevel.def =>
         hdrRet.headerLevel = IF isBlank(hdrContent) THEN hdrLevel
                              ELSE Level(hdrLevel.n + 1)
    /\ hdrCtx = hdrLevel

\* C40: logError on a node sets hadError on that node only: a step that
\* captures an error at a node, and passes it up the chain of parents to the
\* page, leaves the flag of every other node (ancestor, sibling, descendant)
\* as it was; a step that captures no error passes nothing up and raises no
\* flag
C40_LogErrorFlagsOneNode ==
  [][IF captured' # captured
       THEN \E r \in BagToSet(captured') :
              /\ captured' = captured (+) SetToBag({r})
              /\ hadError' = [hadError EXCEPT ![r.at] = TRUE]
       ELSE /\ sink' = sink
            /\ \A n \in Nodes : hadError'[n] => hadError[n]]_vars

\* an error logged at a node below a component went through that component
\* to the page's sink, and no other node of the tree carries a flag: not the
\* node's parent, not the page, not the other children of the page
C40_Witness ==
  \E n \in Nodes \ {Root} :
    /\ hadError[n]
    /\ parent[n] \notin {NoNode, Root}
    /\ \E r \in BagToSet(sink) : r.path = path[n]
    /\ ChildSet(Root) \ {parent[n]} # {}
    /\ \A m \in Nodes \ {n} : ~hadError[m]

====
